---------------------------- MODULE Spec2Model ----------------------------
(***************************************************************************)
(* A model of the note-codes plugin (src/main.ts): the path -> short code  *)
(* hash, the code formatter, the bidirectional index hashesToPaths /       *)
(* pathsToHashes and the handlers that mutate and read it.                 *)
(*                                                                         *)
(* Strings are sequences of one-character strings, so that the character   *)
(* level operations of the source (split, map, filter, slice, startsWith)  *)
(* are computed and not assumed.  Paths are opaque keys and stay strings.  *)
(***************************************************************************)
EXTENDS Integers, Sequences, FiniteSets, Bags, TLC

(***************************************************************************)
(* Bounds of the model.                                                    *)
(***************************************************************************)
\* The largest number of addPath calls suspended on their digest at once.
MaxPending == 2

(***************************************************************************)
(* Small string helpers (JavaScript String / Array built-ins).             *)
(***************************************************************************)
RECURSIVE IndexOf(_, _, _)
\* The first position >= i of x in sequence s, 0 when there is none.
IndexOf(s, x, i) ==
    IF i > Len(s) THEN 0
    ELSE IF s[i] = x THEN i
    ELSE IndexOf(s, x, i + 1)

\* String.prototype.includes for a one-character needle.
Includes(s, x) == IndexOf(s, x, 1) # 0

\* Array.prototype.slice(from, to) with 0-based, end-exclusive indices.
Slice(s, from, to) ==
    LET hi == IF to > Len(s) THEN Len(s) ELSE to
    IN  IF from >= hi THEN << >> ELSE SubSeq(s, from + 1, hi)

\* String.prototype.startsWith.
StartsWith(s, prefix) ==
    /\ Len(prefix) <= Len(s)
    /\ SubSeq(s, 1, Len(prefix)) = prefix

RECURSIVE PadEnd(_, _, _)
\* A mutant of PadStart: the filler goes to the end.
PadEnd(s, n, ch) == IF Len(s) >= n THEN s ELSE PadEnd(s \o <<ch>>, n, ch)

RECURSIVE PadStart(_, _, _)
\* String.prototype.padStart with a one-character filler.
PadStart(s, n, ch) == IF Len(s) >= n THEN s ELSE PadStart(<<ch>> \o s, n, ch)

LowerLetters ==
    << "a", "b", "c", "d", "e", "f", "g", "h", "i", "j", "k", "l", "m",
       "n", "o", "p", "q", "r", "s", "t", "u", "v", "w", "x", "y", "z" >>

UpperLetters ==
    << "A", "B", "C", "D", "E", "F", "G", "H", "I", "J", "K", "L", "M",
       "N", "O", "P", "Q", "R", "S", "T", "U", "V", "W", "X", "Y", "Z" >>

\* String.prototype.toLowerCase on ASCII, for codes typed in lower case.
ToLowerCase(s) ==
    [i \in 1..Len(s) |->
        LET k == IndexOf(UpperLetters, s[i], 1)
        IN  IF k = 0 THEN s[i] ELSE LowerLetters[k]]

\* The characters outside ASCII whose upper case holds an ASCII letter: the
\* full case mappings (Unicode SpecialCasing) of U+00DF, U+0149, U+01F0,
\* U+1E96 to U+1E9A and the ligatures U+FB00 to U+FB06, and the two letters
\* whose simple upper case is an ASCII letter.  A character outside ASCII is
\* written "U+" and its code point.
AsciiUpperCaseMappings ==
    << <<"U+00DF", <<"S", "S">>>>, <<"U+0131", <<"I">>>>, <<"U+017F", <<"S">>>>,
       <<"U+0149", <<"U+02BC", "N">>>>, <<"U+01F0", <<"J", "U+030C">>>>,
       <<"U+1E96", <<"H", "U+0331">>>>, <<"U+1E97", <<"T", "U+0308">>>>,
       <<"U+1E98", <<"W", "U+030A">>>>, <<"U+1E99", <<"Y", "U+030A">>>>,
       <<"U+1E9A", <<"A", "U+02BE">>>>, <<"U+FB00", <<"F", "F">>>>,
       <<"U+FB01", <<"F", "I">>>>, <<"U+FB02", <<"F", "L">>>>,
       <<"U+FB03", <<"F", "F", "I">>>>, <<"U+FB04", <<"F", "F", "L">>>>,
       <<"U+FB05", <<"S", "T">>>>, <<"U+FB06", <<"S", "T">>>> >>

\* The other characters outside ASCII that toUpperCase changes: the
\* upper-case mappings of the Unicode Character Database, version 17.0
\* (UnicodeData.txt and the unconditional full mappings of
\* SpecialCasing.txt; the case pairs added since version 14.0 are those
\* of Garay and Beria Erfe, U+1C8A, and the Latin letters U+019B, U+0264,
\* U+A7CD, U+A7CF, U+A7D3, U+A7D5, U+A7DB).
\* First the characters that yield one character:
\* the i-th character of OneCharUpperCaseFrom yields the i-th of
\* OneCharUpperCaseTo.
OneCharUpperCaseFrom ==
    <<
        "U+00B5", "U+00E0", "U+00E1", "U+00E2", "U+00E3", "U+00E4", "U+00E5",
        "U+00E6", "U+00E7", "U+00E8", "U+00E9", "U+00EA", "U+00EB", "U+00EC",
        "U+00ED", "U+00EE", "U+00EF", "U+00F0", "U+00F1", "U+00F2", "U+00F3",
        "U+00F4", "U+00F5", "U+00F6", "U+00F8", "U+00F9", "U+00FA", "U+00FB",
        "U+00FC", "U+00FD", "U+00FE", "U+00FF", "U+0101", "U+0103", "U+0105",
        "U+0107", "U+0109", "U+010B", "U+010D", "U+010F", "U+0111", "U+0113",
        "U+0115", "U+0117", "U+0119", "U+011B", "U+011D", "U+011F", "U+0121",
        "U+0123", "U+0125", "U+0127", "U+0129", "U+012B", "U+012D", "U+012F",
        "U+0133", "U+0135", "U+0137", "U+013A", "U+013C", "U+013E", "U+0140",
        "U+0142", "U+0144", "U+0146", "U+0148", "U+014B", "U+014D", "U+014F",
        "U+0151", "U+0153", "U+0155", "U+0157", "U+0159", "U+015B", "U+015D",
        "U+015F", "U+0161", "U+0163", "U+0165", "U+0167", "U+0169", "U+016B",
        "U+016D", "U+016F", "U+0171", "U+0173", "U+0175", "U+0177", "U+017A",
        "U+017C", "U+017E", "U+0180", "U+0183", "U+0185", "U+0188", "U+018C",
        "U+0192", "U+0195", "U+0199", "U+019A", "U+019B", "U+019E", "U+01A1",
        "U+01A3", "U+01A5", "U+01A8", "U+01AD", "U+01B0", "U+01B4", "U+01B6",
        "U+01B9", "U+01BD", "U+01BF", "U+01C5", "U+01C6", "U+01C8", "U+01C9",
        "U+01CB", "U+01CC", "U+01CE", "U+01D0", "U+01D2", "U+01D4", "U+01D6",
        "U+01D8", "U+01DA", "U+01DC", "U+01DD", "U+01DF", "U+01E1", "U+01E3",
        "U+01E5", "U+01E7", "U+01E9", "U+01EB", "U+01ED", "U+01EF", "U+01F2",
        "U+01F3", "U+01F5", "U+01F9", "U+01FB", "U+01FD", "U+01FF", "U+0201",
        "U+0203", "U+0205", "U+0207", "U+0209", "U+020B", "U+020D", "U+020F",
        "U+0211", "U+0213", "U+0215", "U+0217", "U+0219", "U+021B", "U+021D",
        "U+021F", "U+0223", "U+0225", "U+0227", "U+0229", "U+022B", "U+022D",
        "U+022F", "U+0231", "U+0233", "U+023C", "U+023F", "U+0240", "U+0242",
        "U+0247", "U+0249", "U+024B", "U+024D", "U+024F", "U+0250", "U+0251",
        "U+0252", "U+0253", "U+0254", "U+0256", "U+0257", "U+0259", "U+025B",
        "U+025C", "U+0260", "U+0261", "U+0263", "U+0264", "U+0265", "U+0266",
        "U+0268", "U+0269", "U+026A", "U+026B", "U+026C", "U+026F", "U+0271",
        "U+0272", "U+0275", "U+027D", "U+0280", "U+0282", "U+0283", "U+0287",
        "U+0288", "U+0289", "U+028A", "U+028B", "U+028C", "U+0292", "U+029D",
        "U+029E", "U+0345", "U+0371", "U+0373", "U+0377", "U+037B", "U+037C",
        "U+037D", "U+03AC", "U+03AD", "U+03AE", "U+03AF", "U+03B1", "U+03B2",
        "U+03B3", "U+03B4", "U+03B5", "U+03B6", "U+03B7", "U+03B8", "U+03B9",
        "U+03BA", "U+03BB", "U+03BC", "U+03BD", "U+03BE", "U+03BF", "U+03C0",
        "U+03C1", "U+03C2", "U+03C3", "U+03C4", "U+03C5", "U+03C6", "U+03C7",
        "U+03C8", "U+03C9", "U+03CA", "U+03CB", "U+03CC", "U+03CD", "U+03CE",
        "U+03D0", "U+03D1", "U+03D5", "U+03D6", "U+03D7", "U+03D9", "U+03DB",
        "U+03DD", "U+03DF", "U+03E1", "U+03E3", "U+03E5", "U+03E7", "U+03E9",
        "U+03EB", "U+03ED", "U+03EF", "U+03F0", "U+03F1", "U+03F2", "U+03F3",
        "U+03F5", "U+03F8", "U+03FB", "U+0430", "U+0431", "U+0432", "U+0433",
        "U+0434", "U+0435", "U+0436", "U+0437", "U+0438", "U+0439", "U+043A",
        "U+043B", "U+043C", "U+043D", "U+043E", "U+043F", "U+0440", "U+0441",
        "U+0442", "U+0443", "U+0444", "U+0445", "U+0446", "U+0447", "U+0448",
        "U+0449", "U+044A", "U+044B", "U+044C", "U+044D", "U+044E", "U+044F",
        "U+0450", "U+0451", "U+0452", "U+0453", "U+0454", "U+0455", "U+0456",
        "U+0457", "U+0458", "U+0459", "U+045A", "U+045B", "U+045C", "U+045D",
        "U+045E", "U+045F", "U+0461", "U+0463", "U+0465", "U+0467", "U+0469",
        "U+046B", "U+046D", "U+046F", "U+0471", "U+0473", "U+0475", "U+0477",
        "U+0479", "U+047B", "U+047D", "U+047F", "U+0481", "U+048B", "U+048D",
        "U+048F", "U+0491", "U+0493", "U+0495", "U+0497", "U+0499", "U+049B",
        "U+049D", "U+049F", "U+04A1", "U+04A3", "U+04A5", "U+04A7", "U+04A9",
        "U+04AB", "U+04AD", "U+04AF", "U+04B1", "U+04B3", "U+04B5", "U+04B7",
        "U+04B9", "U+04BB", "U+04BD", "U+04BF", "U+04C2", "U+04C4", "U+04C6",
        "U+04C8", "U+04CA", "U+04CC", "U+04CE", "U+04CF", "U+04D1", "U+04D3",
        "U+04D5", "U+04D7", "U+04D9", "U+04DB", "U+04DD", "U+04DF", "U+04E1",
        "U+04E3", "U+04E5", "U+04E7", "U+04E9", "U+04EB", "U+04ED", "U+04EF",
        "U+04F1", "U+04F3", "U+04F5", "U+04F7", "U+04F9", "U+04FB", "U+04FD",
        "U+04FF", "U+0501", "U+0503", "U+0505", "U+0507", "U+0509", "U+050B",
        "U+050D", "U+050F", "U+0511", "U+0513", "U+0515", "U+0517", "U+0519",
        "U+051B", "U+051D", "U+051F", "U+0521", "U+0523", "U+0525", "U+0527",
        "U+0529", "U+052B", "U+052D", "U+052F", "U+0561", "U+0562", "U+0563",
        "U+0564", "U+0565", "U+0566", "U+0567", "U+0568", "U+0569", "U+056A",
        "U+056B", "U+056C", "U+056D", "U+056E", "U+056F", "U+0570", "U+0571",
        "U+0572", "U+0573", "U+0574", "U+0575", "U+0576", "U+0577", "U+0578",
        "U+0579", "U+057A", "U+057B", "U+057C", "U+057D", "U+057E", "U+057F",
        "U+0580", "U+0581", "U+0582", "U+0583", "U+0584", "U+0585", "U+0586",
        "U+10D0", "U+10D1", "U+10D2", "U+10D3", "U+10D4", "U+10D5", "U+10D6",
        "U+10D7", "U+10D8", "U+10D9", "U+10DA", "U+10DB", "U+10DC", "U+10DD",
        "U+10DE", "U+10DF", "U+10E0", "U+10E1", "U+10E2", "U+10E3", "U+10E4",
        "U+10E5", "U+10E6", "U+10E7", "U+10E8", "U+10E9", "U+10EA", "U+10EB",
        "U+10EC", "U+10ED", "U+10EE", "U+10EF", "U+10F0", "U+10F1", "U+10F2",
        "U+10F3", "U+10F4", "U+10F5", "U+10F6", "U+10F7", "U+10F8", "U+10F9",
        "U+10FA", "U+10FD", "U+10FE", "U+10FF", "U+13F8", "U+13F9", "U+13FA",
        "U+13FB", "U+13FC", "U+13FD", "U+1C80", "U+1C81", "U+1C82", "U+1C83",
        "U+1C84", "U+1C85", "U+1C86", "U+1C87", "U+1C88", "U+1C8A", "U+1D79",
        "U+1D7D", "U+1D8E", "U+1E01", "U+1E03", "U+1E05", "U+1E07", "U+1E09",
        "U+1E0B", "U+1E0D", "U+1E0F", "U+1E11", "U+1E13", "U+1E15", "U+1E17",
        "U+1E19", "U+1E1B", "U+1E1D", "U+1E1F", "U+1E21", "U+1E23", "U+1E25",
        "U+1E27", "U+1E29", "U+1E2B", "U+1E2D", "U+1E2F", "U+1E31", "U+1E33",
        "U+1E35", "U+1E37", "U+1E39", "U+1E3B", "U+1E3D", "U+1E3F", "U+1E41",
        "U+1E43", "U+1E45", "U+1E47", "U+1E49", "U+1E4B", "U+1E4D", "U+1E4F",
        "U+1E51", "U+1E53", "U+1E55", "U+1E57", "U+1E59", "U+1E5B", "U+1E5D",
        "U+1E5F", "U+1E61", "U+1E63", "U+1E65", "U+1E67", "U+1E69", "U+1E6B",
        "U+1E6D", "U+1E6F", "U+1E71", "U+1E73", "U+1E75", "U+1E77", "U+1E79",
        "U+1E7B", "U+1E7D", "U+1E7F", "U+1E81", "U+1E83", "U+1E85", "U+1E87",
        "U+1E89", "U+1E8B", "U+1E8D", "U+1E8F", "U+1E91", "U+1E93", "U+1E95",
        "U+1E9B", "U+1EA1", "U+1EA3", "U+1EA5", "U+1EA7", "U+1EA9", "U+1EAB",
        "U+1EAD", "U+1EAF", "U+1EB1", "U+1EB3", "U+1EB5", "U+1EB7", "U+1EB9",
        "U+1EBB", "U+1EBD", "U+1EBF", "U+1EC1", "U+1EC3", "U+1EC5", "U+1EC7",
        "U+1EC9", "U+1ECB", "U+1ECD", "U+1ECF", "U+1ED1", "U+1ED3", "U+1ED5",
        "U+1ED7", "U+1ED9", "U+1EDB", "U+1EDD", "U+1EDF", "U+1EE1", "U+1EE3",
        "U+1EE5", "U+1EE7", "U+1EE9", "U+1EEB", "U+1EED", "U+1EEF", "U+1EF1",
        "U+1EF3", "U+1EF5", "U+1EF7", "U+1EF9", "U+1EFB", "U+1EFD", "U+1EFF",
        "U+1F00", "U+1F01", "U+1F02", "U+1F03", "U+1F04", "U+1F05", "U+1F06",
        "U+1F07", "U+1F10", "U+1F11", "U+1F12", "U+1F13", "U+1F14", "U+1F15",
        "U+1F20", "U+1F21", "U+1F22", "U+1F23", "U+1F24", "U+1F25", "U+1F26",
        "U+1F27", "U+1F30", "U+1F31", "U+1F32", "U+1F33", "U+1F34", "U+1F35",
        "U+1F36", "U+1F37", "U+1F40", "U+1F41", "U+1F42", "U+1F43", "U+1F44",
        "U+1F45", "U+1F51", "U+1F53", "U+1F55", "U+1F57", "U+1F60", "U+1F61",
        "U+1F62", "U+1F63", "U+1F64", "U+1F65", "U+1F66", "U+1F67", "U+1F70",
        "U+1F71", "U+1F72", "U+1F73", "U+1F74", "U+1F75", "U+1F76", "U+1F77",
        "U+1F78", "U+1F79", "U+1F7A", "U+1F7B", "U+1F7C", "U+1F7D", "U+1FB0",
        "U+1FB1", "U+1FBE", "U+1FD0", "U+1FD1", "U+1FE0", "U+1FE1", "U+1FE5",
        "U+214E", "U+2170", "U+2171", "U+2172", "U+2173", "U+2174", "U+2175",
        "U+2176", "U+2177", "U+2178", "U+2179", "U+217A", "U+217B", "U+217C",
        "U+217D", "U+217E", "U+217F", "U+2184", "U+24D0", "U+24D1", "U+24D2",
        "U+24D3", "U+24D4", "U+24D5", "U+24D6", "U+24D7", "U+24D8", "U+24D9",
        "U+24DA", "U+24DB", "U+24DC", "U+24DD", "U+24DE", "U+24DF", "U+24E0",
        "U+24E1", "U+24E2", "U+24E3", "U+24E4", "U+24E5", "U+24E6", "U+24E7",
        "U+24E8", "U+24E9", "U+2C30", "U+2C31", "U+2C32", "U+2C33", "U+2C34",
        "U+2C35", "U+2C36", "U+2C37", "U+2C38", "U+2C39", "U+2C3A", "U+2C3B",
        "U+2C3C", "U+2C3D", "U+2C3E", "U+2C3F", "U+2C40", "U+2C41", "U+2C42",
        "U+2C43", "U+2C44", "U+2C45", "U+2C46", "U+2C47", "U+2C48", "U+2C49",
        "U+2C4A", "U+2C4B", "U+2C4C", "U+2C4D", "U+2C4E", "U+2C4F", "U+2C50",
        "U+2C51", "U+2C52", "U+2C53", "U+2C54", "U+2C55", "U+2C56", "U+2C57",
        "U+2C58", "U+2C59", "U+2C5A", "U+2C5B", "U+2C5C", "U+2C5D", "U+2C5E",
        "U+2C5F", "U+2C61", "U+2C65", "U+2C66", "U+2C68", "U+2C6A", "U+2C6C",
        "U+2C73", "U+2C76", "U+2C81", "U+2C83", "U+2C85", "U+2C87", "U+2C89",
        "U+2C8B", "U+2C8D", "U+2C8F", "U+2C91", "U+2C93", "U+2C95", "U+2C97",
        "U+2C99", "U+2C9B", "U+2C9D", "U+2C9F", "U+2CA1", "U+2CA3", "U+2CA5",
        "U+2CA7", "U+2CA9", "U+2CAB", "U+2CAD", "U+2CAF", "U+2CB1", "U+2CB3",
        "U+2CB5", "U+2CB7", "U+2CB9", "U+2CBB", "U+2CBD", "U+2CBF", "U+2CC1",
        "U+2CC3", "U+2CC5", "U+2CC7", "U+2CC9", "U+2CCB", "U+2CCD", "U+2CCF",
        "U+2CD1", "U+2CD3", "U+2CD5", "U+2CD7", "U+2CD9", "U+2CDB", "U+2CDD",
        "U+2CDF", "U+2CE1", "U+2CE3", "U+2CEC", "U+2CEE", "U+2CF3", "U+2D00",
        "U+2D01", "U+2D02", "U+2D03", "U+2D04", "U+2D05", "U+2D06", "U+2D07",
        "U+2D08", "U+2D09", "U+2D0A", "U+2D0B", "U+2D0C", "U+2D0D", "U+2D0E",
        "U+2D0F", "U+2D10", "U+2D11", "U+2D12", "U+2D13", "U+2D14", "U+2D15",
        "U+2D16", "U+2D17", "U+2D18", "U+2D19", "U+2D1A", "U+2D1B", "U+2D1C",
        "U+2D1D", "U+2D1E", "U+2D1F", "U+2D20", "U+2D21", "U+2D22", "U+2D23",
        "U+2D24", "U+2D25", "U+2D27", "U+2D2D", "U+A641", "U+A643", "U+A645",
        "U+A647", "U+A649", "U+A64B", "U+A64D", "U+A64F", "U+A651", "U+A653",
        "U+A655", "U+A657", "U+A659", "U+A65B", "U+A65D", "U+A65F", "U+A661",
        "U+A663", "U+A665", "U+A667", "U+A669", "U+A66B", "U+A66D", "U+A681",
        "U+A683", "U+A685", "U+A687", "U+A689", "U+A68B", "U+A68D", "U+A68F",
        "U+A691", "U+A693", "U+A695", "U+A697", "U+A699", "U+A69B", "U+A723",
        "U+A725", "U+A727", "U+A729", "U+A72B", "U+A72D", "U+A72F", "U+A733",
        "U+A735", "U+A737", "U+A739", "U+A73B", "U+A73D", "U+A73F", "U+A741",
        "U+A743", "U+A745", "U+A747", "U+A749", "U+A74B", "U+A74D", "U+A74F",
        "U+A751", "U+A753", "U+A755", "U+A757", "U+A759", "U+A75B", "U+A75D",
        "U+A75F", "U+A761", "U+A763", "U+A765", "U+A767", "U+A769", "U+A76B",
        "U+A76D", "U+A76F", "U+A77A", "U+A77C", "U+A77F", "U+A781", "U+A783",
        "U+A785", "U+A787", "U+A78C", "U+A791", "U+A793", "U+A794", "U+A797",
        "U+A799", "U+A79B", "U+A79D", "U+A79F", "U+A7A1", "U+A7A3", "U+A7A5",
        "U+A7A7", "U+A7A9", "U+A7B5", "U+A7B7", "U+A7B9", "U+A7BB", "U+A7BD",
        "U+A7BF", "U+A7C1", "U+A7C3", "U+A7C8", "U+A7CA", "U+A7CD", "U+A7CF",
        "U+A7D1", "U+A7D3", "U+A7D5", "U+A7D7", "U+A7D9", "U+A7DB", "U+A7F6",
        "U+AB53", "U+AB70", "U+AB71", "U+AB72", "U+AB73", "U+AB74", "U+AB75",
        "U+AB76", "U+AB77", "U+AB78", "U+AB79", "U+AB7A", "U+AB7B", "U+AB7C",
        "U+AB7D", "U+AB7E", "U+AB7F", "U+AB80", "U+AB81", "U+AB82", "U+AB83",
        "U+AB84", "U+AB85", "U+AB86", "U+AB87", "U+AB88", "U+AB89", "U+AB8A",
        "U+AB8B", "U+AB8C", "U+AB8D", "U+AB8E", "U+AB8F", "U+AB90", "U+AB91",
        "U+AB92", "U+AB93", "U+AB94", "U+AB95", "U+AB96", "U+AB97", "U+AB98",
        "U+AB99", "U+AB9A", "U+AB9B", "U+AB9C", "U+AB9D", "U+AB9E", "U+AB9F",
        "U+ABA0", "U+ABA1", "U+ABA2", "U+ABA3", "U+ABA4", "U+ABA5", "U+ABA6",
        "U+ABA7", "U+ABA8", "U+ABA9", "U+ABAA", "U+ABAB", "U+ABAC", "U+ABAD",
        "U+ABAE", "U+ABAF", "U+ABB0", "U+ABB1", "U+ABB2", "U+ABB3", "U+ABB4",
        "U+ABB5", "U+ABB6", "U+ABB7", "U+ABB8", "U+ABB9", "U+ABBA", "U+ABBB",
        "U+ABBC", "U+ABBD", "U+ABBE", "U+ABBF", "U+FF41", "U+FF42", "U+FF43",
        "U+FF44", "U+FF45", "U+FF46", "U+FF47", "U+FF48", "U+FF49", "U+FF4A",
        "U+FF4B", "U+FF4C", "U+FF4D", "U+FF4E", "U+FF4F", "U+FF50", "U+FF51",
        "U+FF52", "U+FF53", "U+FF54", "U+FF55", "U+FF56", "U+FF57", "U+FF58",
        "U+FF59", "U+FF5A", "U+10428", "U+10429", "U+1042A", "U+1042B",
        "U+1042C", "U+1042D", "U+1042E", "U+1042F", "U+10430", "U+10431",
        "U+10432", "U+10433", "U+10434", "U+10435", "U+10436", "U+10437",
        "U+10438", "U+10439", "U+1043A", "U+1043B", "U+1043C", "U+1043D",
        "U+1043E", "U+1043F", "U+10440", "U+10441", "U+10442", "U+10443",
        "U+10444", "U+10445", "U+10446", "U+10447", "U+10448", "U+10449",
        "U+1044A", "U+1044B", "U+1044C", "U+1044D", "U+1044E", "U+1044F",
        "U+104D8", "U+104D9", "U+104DA", "U+104DB", "U+104DC", "U+104DD",
        "U+104DE", "U+104DF", "U+104E0", "U+104E1", "U+104E2", "U+104E3",
        "U+104E4", "U+104E5", "U+104E6", "U+104E7", "U+104E8", "U+104E9",
        "U+104EA", "U+104EB", "U+104EC", "U+104ED", "U+104EE", "U+104EF",
        "U+104F0", "U+104F1", "U+104F2", "U+104F3", "U+104F4", "U+104F5",
        "U+104F6", "U+104F7", "U+104F8", "U+104F9", "U+104FA", "U+104FB",
        "U+10597", "U+10598", "U+10599", "U+1059A", "U+1059B", "U+1059C",
        "U+1059D", "U+1059E", "U+1059F", "U+105A0", "U+105A1", "U+105A3",
        "U+105A4", "U+105A5", "U+105A6", "U+105A7", "U+105A8", "U+105A9",
        "U+105AA", "U+105AB", "U+105AC", "U+105AD", "U+105AE", "U+105AF",
        "U+105B0", "U+105B1", "U+105B3", "U+105B4", "U+105B5", "U+105B6",
        "U+105B7", "U+105B8", "U+105B9", "U+105BB", "U+105BC", "U+10CC0",
        "U+10CC1", "U+10CC2", "U+10CC3", "U+10CC4", "U+10CC5", "U+10CC6",
        "U+10CC7", "U+10CC8", "U+10CC9", "U+10CCA", "U+10CCB", "U+10CCC",
        "U+10CCD", "U+10CCE", "U+10CCF", "U+10CD0", "U+10CD1", "U+10CD2",
        "U+10CD3", "U+10CD4", "U+10CD5", "U+10CD6", "U+10CD7", "U+10CD8",
        "U+10CD9", "U+10CDA", "U+10CDB", "U+10CDC", "U+10CDD", "U+10CDE",
        "U+10CDF", "U+10CE0", "U+10CE1", "U+10CE2", "U+10CE3", "U+10CE4",
        "U+10CE5", "U+10CE6", "U+10CE7", "U+10CE8", "U+10CE9", "U+10CEA",
        "U+10CEB", "U+10CEC", "U+10CED", "U+10CEE", "U+10CEF", "U+10CF0",
        "U+10CF1", "U+10CF2", "U+10D70", "U+10D71", "U+10D72", "U+10D73",
        "U+10D74", "U+10D75", "U+10D76", "U+10D77", "U+10D78", "U+10D79",
        "U+10D7A", "U+10D7B", "U+10D7C", "U+10D7D", "U+10D7E", "U+10D7F",
        "U+10D80", "U+10D81", "U+10D82", "U+10D83", "U+10D84", "U+10D85",
        "U+118C0", "U+118C1", "U+118C2", "U+118C3", "U+118C4", "U+118C5",
        "U+118C6", "U+118C7", "U+118C8", "U+118C9", "U+118CA", "U+118CB",
        "U+118CC", "U+118CD", "U+118CE", "U+118CF", "U+118D0", "U+118D1",
        "U+118D2", "U+118D3", "U+118D4", "U+118D5", "U+118D6", "U+118D7",
        "U+118D8", "U+118D9", "U+118DA", "U+118DB", "U+118DC", "U+118DD",
        "U+118DE", "U+118DF", "U+16E60", "U+16E61", "U+16E62", "U+16E63",
        "U+16E64", "U+16E65", "U+16E66", "U+16E67", "U+16E68", "U+16E69",
        "U+16E6A", "U+16E6B", "U+16E6C", "U+16E6D", "U+16E6E", "U+16E6F",
        "U+16E70", "U+16E71", "U+16E72", "U+16E73", "U+16E74", "U+16E75",
        "U+16E76", "U+16E77", "U+16E78", "U+16E79", "U+16E7A", "U+16E7B",
        "U+16E7C", "U+16E7D", "U+16E7E", "U+16E7F", "U+16EBB", "U+16EBC",
        "U+16EBD", "U+16EBE", "U+16EBF", "U+16EC0", "U+16EC1", "U+16EC2",
        "U+16EC3", "U+16EC4", "U+16EC5", "U+16EC6", "U+16EC7", "U+16EC8",
        "U+16EC9", "U+16ECA", "U+16ECB", "U+16ECC", "U+16ECD", "U+16ECE",
        "U+16ECF", "U+16ED0", "U+16ED1", "U+16ED2", "U+16ED3", "U+1E922",
        "U+1E923", "U+1E924", "U+1E925", "U+1E926", "U+1E927", "U+1E928",
        "U+1E929", "U+1E92A", "U+1E92B", "U+1E92C", "U+1E92D", "U+1E92E",
        "U+1E92F", "U+1E930", "U+1E931", "U+1E932", "U+1E933", "U+1E934",
        "U+1E935", "U+1E936", "U+1E937", "U+1E938", "U+1E939", "U+1E93A",
        "U+1E93B", "U+1E93C", "U+1E93D", "U+1E93E", "U+1E93F", "U+1E940",
        "U+1E941", "U+1E942", "U+1E943"
    >>

OneCharUpperCaseTo ==
    <<
        "U+039C", "U+00C0", "U+00C1", "U+00C2", "U+00C3", "U+00C4", "U+00C5",
        "U+00C6", "U+00C7", "U+00C8", "U+00C9", "U+00CA", "U+00CB", "U+00CC",
        "U+00CD", "U+00CE", "U+00CF", "U+00D0", "U+00D1", "U+00D2", "U+00D3",
        "U+00D4", "U+00D5", "U+00D6", "U+00D8", "U+00D9", "U+00DA", "U+00DB",
        "U+00DC", "U+00DD", "U+00DE", "U+0178", "U+0100", "U+0102", "U+0104",
        "U+0106", "U+0108", "U+010A", "U+010C", "U+010E", "U+0110", "U+0112",
        "U+0114", "U+0116", "U+0118", "U+011A", "U+011C", "U+011E", "U+0120",
        "U+0122", "U+0124", "U+0126", "U+0128", "U+012A", "U+012C", "U+012E",
        "U+0132", "U+0134", "U+0136", "U+0139", "U+013B", "U+013D", "U+013F",
        "U+0141", "U+0143", "U+0145", "U+0147", "U+014A", "U+014C", "U+014E",
        "U+0150", "U+0152", "U+0154", "U+0156", "U+0158", "U+015A", "U+015C",
        "U+015E", "U+0160", "U+0162", "U+0164", "U+0166", "U+0168", "U+016A",
        "U+016C", "U+016E", "U+0170", "U+0172", "U+0174", "U+0176", "U+0179",
        "U+017B", "U+017D", "U+0243", "U+0182", "U+0184", "U+0187", "U+018B",
        "U+0191", "U+01F6", "U+0198", "U+023D", "U+A7DC", "U+0220", "U+01A0",
        "U+01A2", "U+01A4", "U+01A7", "U+01AC", "U+01AF", "U+01B3", "U+01B5",
        "U+01B8", "U+01BC", "U+01F7", "U+01C4", "U+01C4", "U+01C7", "U+01C7",
        "U+01CA", "U+01CA", "U+01CD", "U+01CF", "U+01D1", "U+01D3", "U+01D5",
        "U+01D7", "U+01D9", "U+01DB", "U+018E", "U+01DE", "U+01E0", "U+01E2",
        "U+01E4", "U+01E6", "U+01E8", "U+01EA", "U+01EC", "U+01EE", "U+01F1",
        "U+01F1", "U+01F4", "U+01F8", "U+01FA", "U+01FC", "U+01FE", "U+0200",
        "U+0202", "U+0204", "U+0206", "U+0208", "U+020A", "U+020C", "U+020E",
        "U+0210", "U+0212", "U+0214", "U+0216", "U+0218", "U+021A", "U+021C",
        "U+021E", "U+0222", "U+0224", "U+0226", "U+0228", "U+022A", "U+022C",
        "U+022E", "U+0230", "U+0232", "U+023B", "U+2C7E", "U+2C7F", "U+0241",
        "U+0246", "U+0248", "U+024A", "U+024C", "U+024E", "U+2C6F", "U+2C6D",
        "U+2C70", "U+0181", "U+0186", "U+0189", "U+018A", "U+018F", "U+0190",
        "U+A7AB", "U+0193", "U+A7AC", "U+0194", "U+A7CB", "U+A78D", "U+A7AA",
        "U+0197", "U+0196", "U+A7AE", "U+2C62", "U+A7AD", "U+019C", "U+2C6E",
        "U+019D", "U+019F", "U+2C64", "U+01A6", "U+A7C5", "U+01A9", "U+A7B1",
        "U+01AE", "U+0244", "U+01B1", "U+01B2", "U+0245", "U+01B7", "U+A7B2",
        "U+A7B0", "U+0399", "U+0370", "U+0372", "U+0376", "U+03FD", "U+03FE",
        "U+03FF", "U+0386", "U+0388", "U+0389", "U+038A", "U+0391", "U+0392",
        "U+0393", "U+0394", "U+0395", "U+0396", "U+0397", "U+0398", "U+0399",
        "U+039A", "U+039B", "U+039C", "U+039D", "U+039E", "U+039F", "U+03A0",
        "U+03A1", "U+03A3", "U+03A3", "U+03A4", "U+03A5", "U+03A6", "U+03A7",
        "U+03A8", "U+03A9", "U+03AA", "U+03AB", "U+038C", "U+038E", "U+038F",
        "U+0392", "U+0398", "U+03A6", "U+03A0", "U+03CF", "U+03D8", "U+03DA",
        "U+03DC", "U+03DE", "U+03E0", "U+03E2", "U+03E4", "U+03E6", "U+03E8",
        "U+03EA", "U+03EC", "U+03EE", "U+039A", "U+03A1", "U+03F9", "U+037F",
        "U+0395", "U+03F7", "U+03FA", "U+0410", "U+0411", "U+0412", "U+0413",
        "U+0414", "U+0415", "U+0416", "U+0417", "U+0418", "U+0419", "U+041A",
        "U+041B", "U+041C", "U+041D", "U+041E", "U+041F", "U+0420", "U+0421",
        "U+0422", "U+0423", "U+0424", "U+0425", "U+0426", "U+0427", "U+0428",
        "U+0429", "U+042A", "U+042B", "U+042C", "U+042D", "U+042E", "U+042F",
        "U+0400", "U+0401", "U+0402", "U+0403", "U+0404", "U+0405", "U+0406",
        "U+0407", "U+0408", "U+0409", "U+040A", "U+040B", "U+040C", "U+040D",
        "U+040E", "U+040F", "U+0460", "U+0462", "U+0464", "U+0466", "U+0468",
        "U+046A", "U+046C", "U+046E", "U+0470", "U+0472", "U+0474", "U+0476",
        "U+0478", "U+047A", "U+047C", "U+047E", "U+0480", "U+048A", "U+048C",
        "U+048E", "U+0490", "U+0492", "U+0494", "U+0496", "U+0498", "U+049A",
        "U+049C", "U+049E", "U+04A0", "U+04A2", "U+04A4", "U+04A6", "U+04A8",
        "U+04AA", "U+04AC", "U+04AE", "U+04B0", "U+04B2", "U+04B4", "U+04B6",
        "U+04B8", "U+04BA", "U+04BC", "U+04BE", "U+04C1", "U+04C3", "U+04C5",
        "U+04C7", "U+04C9", "U+04CB", "U+04CD", "U+04C0", "U+04D0", "U+04D2",
        "U+04D4", "U+04D6", "U+04D8", "U+04DA", "U+04DC", "U+04DE", "U+04E0",
        "U+04E2", "U+04E4", "U+04E6", "U+04E8", "U+04EA", "U+04EC", "U+04EE",
        "U+04F0", "U+04F2", "U+04F4", "U+04F6", "U+04F8", "U+04FA", "U+04FC",
        "U+04FE", "U+0500", "U+0502", "U+0504", "U+0506", "U+0508", "U+050A",
        "U+050C", "U+050E", "U+0510", "U+0512", "U+0514", "U+0516", "U+0518",
        "U+051A", "U+051C", "U+051E", "U+0520", "U+0522", "U+0524", "U+0526",
        "U+0528", "U+052A", "U+052C", "U+052E", "U+0531", "U+0532", "U+0533",
        "U+0534", "U+0535", "U+0536", "U+0537", "U+0538", "U+0539", "U+053A",
        "U+053B", "U+053C", "U+053D", "U+053E", "U+053F", "U+0540", "U+0541",
        "U+0542", "U+0543", "U+0544", "U+0545", "U+0546", "U+0547", "U+0548",
        "U+0549", "U+054A", "U+054B", "U+054C", "U+054D", "U+054E", "U+054F",
        "U+0550", "U+0551", "U+0552", "U+0553", "U+0554", "U+0555", "U+0556",
        "U+1C90", "U+1C91", "U+1C92", "U+1C93", "U+1C94", "U+1C95", "U+1C96",
        "U+1C97", "U+1C98", "U+1C99", "U+1C9A", "U+1C9B", "U+1C9C", "U+1C9D",
        "U+1C9E", "U+1C9F", "U+1CA0", "U+1CA1", "U+1CA2", "U+1CA3", "U+1CA4",
        "U+1CA5", "U+1CA6", "U+1CA7", "U+1CA8", "U+1CA9", "U+1CAA", "U+1CAB",
        "U+1CAC", "U+1CAD", "U+1CAE", "U+1CAF", "U+1CB0", "U+1CB1", "U+1CB2",
        "U+1CB3", "U+1CB4", "U+1CB5", "U+1CB6", "U+1CB7", "U+1CB8", "U+1CB9",
        "U+1CBA", "U+1CBD", "U+1CBE", "U+1CBF", "U+13F0", "U+13F1", "U+13F2",
        "U+13F3", "U+13F4", "U+13F5", "U+0412", "U+0414", "U+041E", "U+0421",
        "U+0422", "U+0422", "U+042A", "U+0462", "U+A64A", "U+1C89", "U+A77D",
        "U+2C63", "U+A7C6", "U+1E00", "U+1E02", "U+1E04", "U+1E06", "U+1E08",
        "U+1E0A", "U+1E0C", "U+1E0E", "U+1E10", "U+1E12", "U+1E14", "U+1E16",
        "U+1E18", "U+1E1A", "U+1E1C", "U+1E1E", "U+1E20", "U+1E22", "U+1E24",
        "U+1E26", "U+1E28", "U+1E2A", "U+1E2C", "U+1E2E", "U+1E30", "U+1E32",
        "U+1E34", "U+1E36", "U+1E38", "U+1E3A", "U+1E3C", "U+1E3E", "U+1E40",
        "U+1E42", "U+1E44", "U+1E46", "U+1E48", "U+1E4A", "U+1E4C", "U+1E4E",
        "U+1E50", "U+1E52", "U+1E54", "U+1E56", "U+1E58", "U+1E5A", "U+1E5C",
        "U+1E5E", "U+1E60", "U+1E62", "U+1E64", "U+1E66", "U+1E68", "U+1E6A",
        "U+1E6C", "U+1E6E", "U+1E70", "U+1E72", "U+1E74", "U+1E76", "U+1E78",
        "U+1E7A", "U+1E7C", "U+1E7E", "U+1E80", "U+1E82", "U+1E84", "U+1E86",
        "U+1E88", "U+1E8A", "U+1E8C", "U+1E8E", "U+1E90", "U+1E92", "U+1E94",
        "U+1E60", "U+1EA0", "U+1EA2", "U+1EA4", "U+1EA6", "U+1EA8", "U+1EAA",
        "U+1EAC", "U+1EAE", "U+1EB0", "U+1EB2", "U+1EB4", "U+1EB6", "U+1EB8",
        "U+1EBA", "U+1EBC", "U+1EBE", "U+1EC0", "U+1EC2", "U+1EC4", "U+1EC6",
        "U+1EC8", "U+1ECA", "U+1ECC", "U+1ECE", "U+1ED0", "U+1ED2", "U+1ED4",
        "U+1ED6", "U+1ED8", "U+1EDA", "U+1EDC", "U+1EDE", "U+1EE0", "U+1EE2",
        "U+1EE4", "U+1EE6", "U+1EE8", "U+1EEA", "U+1EEC", "U+1EEE", "U+1EF0",
        "U+1EF2", "U+1EF4", "U+1EF6", "U+1EF8", "U+1EFA", "U+1EFC", "U+1EFE",
        "U+1F08", "U+1F09", "U+1F0A", "U+1F0B", "U+1F0C", "U+1F0D", "U+1F0E",
        "U+1F0F", "U+1F18", "U+1F19", "U+1F1A", "U+1F1B", "U+1F1C", "U+1F1D",
        "U+1F28", "U+1F29", "U+1F2A", "U+1F2B", "U+1F2C", "U+1F2D", "U+1F2E",
        "U+1F2F", "U+1F38", "U+1F39", "U+1F3A", "U+1F3B", "U+1F3C", "U+1F3D",
        "U+1F3E", "U+1F3F", "U+1F48", "U+1F49", "U+1F4A", "U+1F4B", "U+1F4C",
        "U+1F4D", "U+1F59", "U+1F5B", "U+1F5D", "U+1F5F", "U+1F68", "U+1F69",
        "U+1F6A", "U+1F6B", "U+1F6C", "U+1F6D", "U+1F6E", "U+1F6F", "U+1FBA",
        "U+1FBB", "U+1FC8", "U+1FC9", "U+1FCA", "U+1FCB", "U+1FDA", "U+1FDB",
        "U+1FF8", "U+1FF9", "U+1FEA", "U+1FEB", "U+1FFA", "U+1FFB", "U+1FB8",
        "U+1FB9", "U+0399", "U+1FD8", "U+1FD9", "U+1FE8", "U+1FE9", "U+1FEC",
        "U+2132", "U+2160", "U+2161", "U+2162", "U+2163", "U+2164", "U+2165",
        "U+2166", "U+2167", "U+2168", "U+2169", "U+216A", "U+216B", "U+216C",
        "U+216D", "U+216E", "U+216F", "U+2183", "U+24B6", "U+24B7", "U+24B8",
        "U+24B9", "U+24BA", "U+24BB", "U+24BC", "U+24BD", "U+24BE", "U+24BF",
        "U+24C0", "U+24C1", "U+24C2", "U+24C3", "U+24C4", "U+24C5", "U+24C6",
        "U+24C7", "U+24C8", "U+24C9", "U+24CA", "U+24CB", "U+24CC", "U+24CD",
        "U+24CE", "U+24CF", "U+2C00", "U+2C01", "U+2C02", "U+2C03", "U+2C04",
        "U+2C05", "U+2C06", "U+2C07", "U+2C08", "U+2C09", "U+2C0A", "U+2C0B",
        "U+2C0C", "U+2C0D", "U+2C0E", "U+2C0F", "U+2C10", "U+2C11", "U+2C12",
        "U+2C13", "U+2C14", "U+2C15", "U+2C16", "U+2C17", "U+2C18", "U+2C19",
        "U+2C1A", "U+2C1B", "U+2C1C", "U+2C1D", "U+2C1E", "U+2C1F", "U+2C20",
        "U+2C21", "U+2C22", "U+2C23", "U+2C24", "U+2C25", "U+2C26", "U+2C27",
        "U+2C28", "U+2C29", "U+2C2A", "U+2C2B", "U+2C2C", "U+2C2D", "U+2C2E",
        "U+2C2F", "U+2C60", "U+023A", "U+023E", "U+2C67", "U+2C69", "U+2C6B",
        "U+2C72", "U+2C75", "U+2C80", "U+2C82", "U+2C84", "U+2C86", "U+2C88",
        "U+2C8A", "U+2C8C", "U+2C8E", "U+2C90", "U+2C92", "U+2C94", "U+2C96",
        "U+2C98", "U+2C9A", "U+2C9C", "U+2C9E", "U+2CA0", "U+2CA2", "U+2CA4",
        "U+2CA6", "U+2CA8", "U+2CAA", "U+2CAC", "U+2CAE", "U+2CB0", "U+2CB2",
        "U+2CB4", "U+2CB6", "U+2CB8", "U+2CBA", "U+2CBC", "U+2CBE", "U+2CC0",
        "U+2CC2", "U+2CC4", "U+2CC6", "U+2CC8", "U+2CCA", "U+2CCC", "U+2CCE",
        "U+2CD0", "U+2CD2", "U+2CD4", "U+2CD6", "U+2CD8", "U+2CDA", "U+2CDC",
        "U+2CDE", "U+2CE0", "U+2CE2", "U+2CEB", "U+2CED", "U+2CF2", "U+10A0",
        "U+10A1", "U+10A2", "U+10A3", "U+10A4", "U+10A5", "U+10A6", "U+10A7",
        "U+10A8", "U+10A9", "U+10AA", "U+10AB", "U+10AC", "U+10AD", "U+10AE",
        "U+10AF", "U+10B0", "U+10B1", "U+10B2", "U+10B3", "U+10B4", "U+10B5",
        "U+10B6", "U+10B7", "U+10B8", "U+10B9", "U+10BA", "U+10BB", "U+10BC",
        "U+10BD", "U+10BE", "U+10BF", "U+10C0", "U+10C1", "U+10C2", "U+10C3",
        "U+10C4", "U+10C5", "U+10C7", "U+10CD", "U+A640", "U+A642", "U+A644",
        "U+A646", "U+A648", "U+A64A", "U+A64C", "U+A64E", "U+A650", "U+A652",
        "U+A654", "U+A656", "U+A658", "U+A65A", "U+A65C", "U+A65E", "U+A660",
        "U+A662", "U+A664", "U+A666", "U+A668", "U+A66A", "U+A66C", "U+A680",
        "U+A682", "U+A684", "U+A686", "U+A688", "U+A68A", "U+A68C", "U+A68E",
        "U+A690", "U+A692", "U+A694", "U+A696", "U+A698", "U+A69A", "U+A722",
        "U+A724", "U+A726", "U+A728", "U+A72A", "U+A72C", "U+A72E", "U+A732",
        "U+A734", "U+A736", "U+A738", "U+A73A", "U+A73C", "U+A73E", "U+A740",
        "U+A742", "U+A744", "U+A746", "U+A748", "U+A74A", "U+A74C", "U+A74E",
        "U+A750", "U+A752", "U+A754", "U+A756", "U+A758", "U+A75A", "U+A75C",
        "U+A75E", "U+A760", "U+A762", "U+A764", "U+A766", "U+A768", "U+A76A",
        "U+A76C", "U+A76E", "U+A779", "U+A77B", "U+A77E", "U+A780", "U+A782",
        "U+A784", "U+A786", "U+A78B", "U+A790", "U+A792", "U+A7C4", "U+A796",
        "U+A798", "U+A79A", "U+A79C", "U+A79E", "U+A7A0", "U+A7A2", "U+A7A4",
        "U+A7A6", "U+A7A8", "U+A7B4", "U+A7B6", "U+A7B8", "U+A7BA", "U+A7BC",
        "U+A7BE", "U+A7C0", "U+A7C2", "U+A7C7", "U+A7C9", "U+A7CC", "U+A7CE",
        "U+A7D0", "U+A7D2", "U+A7D4", "U+A7D6", "U+A7D8", "U+A7DA", "U+A7F5",
        "U+A7B3", "U+13A0", "U+13A1", "U+13A2", "U+13A3", "U+13A4", "U+13A5",
        "U+13A6", "U+13A7", "U+13A8", "U+13A9", "U+13AA", "U+13AB", "U+13AC",
        "U+13AD", "U+13AE", "U+13AF", "U+13B0", "U+13B1", "U+13B2", "U+13B3",
        "U+13B4", "U+13B5", "U+13B6", "U+13B7", "U+13B8", "U+13B9", "U+13BA",
        "U+13BB", "U+13BC", "U+13BD", "U+13BE", "U+13BF", "U+13C0", "U+13C1",
        "U+13C2", "U+13C3", "U+13C4", "U+13C5", "U+13C6", "U+13C7", "U+13C8",
        "U+13C9", "U+13CA", "U+13CB", "U+13CC", "U+13CD", "U+13CE", "U+13CF",
        "U+13D0", "U+13D1", "U+13D2", "U+13D3", "U+13D4", "U+13D5", "U+13D6",
        "U+13D7", "U+13D8", "U+13D9", "U+13DA", "U+13DB", "U+13DC", "U+13DD",
        "U+13DE", "U+13DF", "U+13E0", "U+13E1", "U+13E2", "U+13E3", "U+13E4",
        "U+13E5", "U+13E6", "U+13E7", "U+13E8", "U+13E9", "U+13EA", "U+13EB",
        "U+13EC", "U+13ED", "U+13EE", "U+13EF", "U+FF21", "U+FF22", "U+FF23",
        "U+FF24", "U+FF25", "U+FF26", "U+FF27", "U+FF28", "U+FF29", "U+FF2A",
        "U+FF2B", "U+FF2C", "U+FF2D", "U+FF2E", "U+FF2F", "U+FF30", "U+FF31",
        "U+FF32", "U+FF33", "U+FF34", "U+FF35", "U+FF36", "U+FF37", "U+FF38",
        "U+FF39", "U+FF3A", "U+10400", "U+10401", "U+10402", "U+10403",
        "U+10404", "U+10405", "U+10406", "U+10407", "U+10408", "U+10409",
        "U+1040A", "U+1040B", "U+1040C", "U+1040D", "U+1040E", "U+1040F",
        "U+10410", "U+10411", "U+10412", "U+10413", "U+10414", "U+10415",
        "U+10416", "U+10417", "U+10418", "U+10419", "U+1041A", "U+1041B",
        "U+1041C", "U+1041D", "U+1041E", "U+1041F", "U+10420", "U+10421",
        "U+10422", "U+10423", "U+10424", "U+10425", "U+10426", "U+10427",
        "U+104B0", "U+104B1", "U+104B2", "U+104B3", "U+104B4", "U+104B5",
        "U+104B6", "U+104B7", "U+104B8", "U+104B9", "U+104BA", "U+104BB",
        "U+104BC", "U+104BD", "U+104BE", "U+104BF", "U+104C0", "U+104C1",
        "U+104C2", "U+104C3", "U+104C4", "U+104C5", "U+104C6", "U+104C7",
        "U+104C8", "U+104C9", "U+104CA", "U+104CB", "U+104CC", "U+104CD",
        "U+104CE", "U+104CF", "U+104D0", "U+104D1", "U+104D2", "U+104D3",
        "U+10570", "U+10571", "U+10572", "U+10573", "U+10574", "U+10575",
        "U+10576", "U+10577", "U+10578", "U+10579", "U+1057A", "U+1057C",
        "U+1057D", "U+1057E", "U+1057F", "U+10580", "U+10581", "U+10582",
        "U+10583", "U+10584", "U+10585", "U+10586", "U+10587", "U+10588",
        "U+10589", "U+1058A", "U+1058C", "U+1058D", "U+1058E", "U+1058F",
        "U+10590", "U+10591", "U+10592", "U+10594", "U+10595", "U+10C80",
        "U+10C81", "U+10C82", "U+10C83", "U+10C84", "U+10C85", "U+10C86",
        "U+10C87", "U+10C88", "U+10C89", "U+10C8A", "U+10C8B", "U+10C8C",
        "U+10C8D", "U+10C8E", "U+10C8F", "U+10C90", "U+10C91", "U+10C92",
        "U+10C93", "U+10C94", "U+10C95", "U+10C96", "U+10C97", "U+10C98",
        "U+10C99", "U+10C9A", "U+10C9B", "U+10C9C", "U+10C9D", "U+10C9E",
        "U+10C9F", "U+10CA0", "U+10CA1", "U+10CA2", "U+10CA3", "U+10CA4",
        "U+10CA5", "U+10CA6", "U+10CA7", "U+10CA8", "U+10CA9", "U+10CAA",
        "U+10CAB", "U+10CAC", "U+10CAD", "U+10CAE", "U+10CAF", "U+10CB0",
        "U+10CB1", "U+10CB2", "U+10D50", "U+10D51", "U+10D52", "U+10D53",
        "U+10D54", "U+10D55", "U+10D56", "U+10D57", "U+10D58", "U+10D59",
        "U+10D5A", "U+10D5B", "U+10D5C", "U+10D5D", "U+10D5E", "U+10D5F",
        "U+10D60", "U+10D61", "U+10D62", "U+10D63", "U+10D64", "U+10D65",
        "U+118A0", "U+118A1", "U+118A2", "U+118A3", "U+118A4", "U+118A5",
        "U+118A6", "U+118A7", "U+118A8", "U+118A9", "U+118AA", "U+118AB",
        "U+118AC", "U+118AD", "U+118AE", "U+118AF", "U+118B0", "U+118B1",
        "U+118B2", "U+118B3", "U+118B4", "U+118B5", "U+118B6", "U+118B7",
        "U+118B8", "U+118B9", "U+118BA", "U+118BB", "U+118BC", "U+118BD",
        "U+118BE", "U+118BF", "U+16E40", "U+16E41", "U+16E42", "U+16E43",
        "U+16E44", "U+16E45", "U+16E46", "U+16E47", "U+16E48", "U+16E49",
        "U+16E4A", "U+16E4B", "U+16E4C", "U+16E4D", "U+16E4E", "U+16E4F",
        "U+16E50", "U+16E51", "U+16E52", "U+16E53", "U+16E54", "U+16E55",
        "U+16E56", "U+16E57", "U+16E58", "U+16E59", "U+16E5A", "U+16E5B",
        "U+16E5C", "U+16E5D", "U+16E5E", "U+16E5F", "U+16EA0", "U+16EA1",
        "U+16EA2", "U+16EA3", "U+16EA4", "U+16EA5", "U+16EA6", "U+16EA7",
        "U+16EA8", "U+16EA9", "U+16EAA", "U+16EAB", "U+16EAC", "U+16EAD",
        "U+16EAE", "U+16EAF", "U+16EB0", "U+16EB1", "U+16EB2", "U+16EB3",
        "U+16EB4", "U+16EB5", "U+16EB6", "U+16EB7", "U+16EB8", "U+1E900",
        "U+1E901", "U+1E902", "U+1E903", "U+1E904", "U+1E905", "U+1E906",
        "U+1E907", "U+1E908", "U+1E909", "U+1E90A", "U+1E90B", "U+1E90C",
        "U+1E90D", "U+1E90E", "U+1E90F", "U+1E910", "U+1E911", "U+1E912",
        "U+1E913", "U+1E914", "U+1E915", "U+1E916", "U+1E917", "U+1E918",
        "U+1E919", "U+1E91A", "U+1E91B", "U+1E91C", "U+1E91D", "U+1E91E",
        "U+1E91F", "U+1E920", "U+1E921"
    >>

\* Then the characters that yield several characters.
OtherUpperCaseMappings ==
    <<
        <<"U+0390", <<"U+0399", "U+0308", "U+0301">>>>,
        <<"U+03B0", <<"U+03A5", "U+0308", "U+0301">>>>,
        <<"U+0587", <<"U+0535", "U+0552">>>>,
        <<"U+1F50", <<"U+03A5", "U+0313">>>>,
        <<"U+1F52", <<"U+03A5", "U+0313", "U+0300">>>>,
        <<"U+1F54", <<"U+03A5", "U+0313", "U+0301">>>>,
        <<"U+1F56", <<"U+03A5", "U+0313", "U+0342">>>>,
        <<"U+1F80", <<"U+1F08", "U+0399">>>>,
        <<"U+1F81", <<"U+1F09", "U+0399">>>>,
        <<"U+1F82", <<"U+1F0A", "U+0399">>>>,
        <<"U+1F83", <<"U+1F0B", "U+0399">>>>,
        <<"U+1F84", <<"U+1F0C", "U+0399">>>>,
        <<"U+1F85", <<"U+1F0D", "U+0399">>>>,
        <<"U+1F86", <<"U+1F0E", "U+0399">>>>,
        <<"U+1F87", <<"U+1F0F", "U+0399">>>>,
        <<"U+1F88", <<"U+1F08", "U+0399">>>>,
        <<"U+1F89", <<"U+1F09", "U+0399">>>>,
        <<"U+1F8A", <<"U+1F0A", "U+0399">>>>,
        <<"U+1F8B", <<"U+1F0B", "U+0399">>>>,
        <<"U+1F8C", <<"U+1F0C", "U+0399">>>>,
        <<"U+1F8D", <<"U+1F0D", "U+0399">>>>,
        <<"U+1F8E", <<"U+1F0E", "U+0399">>>>,
        <<"U+1F8F", <<"U+1F0F", "U+0399">>>>,
        <<"U+1F90", <<"U+1F28", "U+0399">>>>,
        <<"U+1F91", <<"U+1F29", "U+0399">>>>,
        <<"U+1F92", <<"U+1F2A", "U+0399">>>>,
        <<"U+1F93", <<"U+1F2B", "U+0399">>>>,
        <<"U+1F94", <<"U+1F2C", "U+0399">>>>,
        <<"U+1F95", <<"U+1F2D", "U+0399">>>>,
        <<"U+1F96", <<"U+1F2E", "U+0399">>>>,
        <<"U+1F97", <<"U+1F2F", "U+0399">>>>,
        <<"U+1F98", <<"U+1F28", "U+0399">>>>,
        <<"U+1F99", <<"U+1F29", "U+0399">>>>,
        <<"U+1F9A", <<"U+1F2A", "U+0399">>>>,
        <<"U+1F9B", <<"U+1F2B", "U+0399">>>>,
        <<"U+1F9C", <<"U+1F2C", "U+0399">>>>,
        <<"U+1F9D", <<"U+1F2D", "U+0399">>>>,
        <<"U+1F9E", <<"U+1F2E", "U+0399">>>>,
        <<"U+1F9F", <<"U+1F2F", "U+0399">>>>,
        <<"U+1FA0", <<"U+1F68", "U+0399">>>>,
        <<"U+1FA1", <<"U+1F69", "U+0399">>>>,
        <<"U+1FA2", <<"U+1F6A", "U+0399">>>>,
        <<"U+1FA3", <<"U+1F6B", "U+0399">>>>,
        <<"U+1FA4", <<"U+1F6C", "U+0399">>>>,
        <<"U+1FA5", <<"U+1F6D", "U+0399">>>>,
        <<"U+1FA6", <<"U+1F6E", "U+0399">>>>,
        <<"U+1FA7", <<"U+1F6F", "U+0399">>>>,
        <<"U+1FA8", <<"U+1F68", "U+0399">>>>,
        <<"U+1FA9", <<"U+1F69", "U+0399">>>>,
        <<"U+1FAA", <<"U+1F6A", "U+0399">>>>,
        <<"U+1FAB", <<"U+1F6B", "U+0399">>>>,
        <<"U+1FAC", <<"U+1F6C", "U+0399">>>>,
        <<"U+1FAD", <<"U+1F6D", "U+0399">>>>,
        <<"U+1FAE", <<"U+1F6E", "U+0399">>>>,
        <<"U+1FAF", <<"U+1F6F", "U+0399">>>>,
        <<"U+1FB2", <<"U+1FBA", "U+0399">>>>,
        <<"U+1FB3", <<"U+0391", "U+0399">>>>,
        <<"U+1FB4", <<"U+0386", "U+0399">>>>,
        <<"U+1FB6", <<"U+0391", "U+0342">>>>,
        <<"U+1FB7", <<"U+0391", "U+0342", "U+0399">>>>,
        <<"U+1FBC", <<"U+0391", "U+0399">>>>,
        <<"U+1FC2", <<"U+1FCA", "U+0399">>>>,
        <<"U+1FC3", <<"U+0397", "U+0399">>>>,
        <<"U+1FC4", <<"U+0389", "U+0399">>>>,
        <<"U+1FC6", <<"U+0397", "U+0342">>>>,
        <<"U+1FC7", <<"U+0397", "U+0342", "U+0399">>>>,
        <<"U+1FCC", <<"U+0397", "U+0399">>>>,
        <<"U+1FD2", <<"U+0399", "U+0308", "U+0300">>>>,
        <<"U+1FD3", <<"U+0399", "U+0308", "U+0301">>>>,
        <<"U+1FD6", <<"U+0399", "U+0342">>>>,
        <<"U+1FD7", <<"U+0399", "U+0308", "U+0342">>>>,
        <<"U+1FE2", <<"U+03A5", "U+0308", "U+0300">>>>,
        <<"U+1FE3", <<"U+03A5", "U+0308", "U+0301">>>>,
        <<"U+1FE4", <<"U+03A1", "U+0313">>>>,
        <<"U+1FE6", <<"U+03A5", "U+0342">>>>,
        <<"U+1FE7", <<"U+03A5", "U+0308", "U+0342">>>>,
        <<"U+1FF2", <<"U+1FFA", "U+0399">>>>,
        <<"U+1FF3", <<"U+03A9", "U+0399">>>>,
        <<"U+1FF4", <<"U+038F", "U+0399">>>>,
        <<"U+1FF6", <<"U+03A9", "U+0342">>>>,
        <<"U+1FF7", <<"U+03A9", "U+0342", "U+0399">>>>,
        <<"U+1FFC", <<"U+03A9", "U+0399">>>>,
        <<"U+FB13", <<"U+0544", "U+0546">>>>,
        <<"U+FB14", <<"U+0544", "U+0535">>>>,
        <<"U+FB15", <<"U+0544", "U+053B">>>>,
        <<"U+FB16", <<"U+054E", "U+0546">>>>,
        <<"U+FB17", <<"U+0544", "U+053D">>>>
    >>


\* The mappings as a function of the character, computed once.
UpperCaseTable ==
    LET several == AsciiUpperCaseMappings \o OtherUpperCaseMappings
        S == {several[i] : i \in 1..Len(several)}
             \cup {<< OneCharUpperCaseFrom[i], << OneCharUpperCaseTo[i] >> >> :
                      i \in 1..Len(OneCharUpperCaseFrom)}
    IN  [c \in {m[1] : m \in S} |-> (CHOOSE m \in S : m[1] = c)[2]]

\* The characters of the table.
UpperCaseKeys == DOMAIN UpperCaseTable

\* String.prototype.toUpperCase on one character: the characters it
\* yields.
ToUpperCaseChar(c) ==
    LET i == IndexOf(LowerLetters, c, 1)
    IN  IF i # 0 THEN << UpperLetters[i] >>
        ELSE IF c \in UpperCaseKeys THEN UpperCaseTable[c]
        ELSE << c >>

RECURSIVE ToUpperCase(_)
\* String.prototype.toUpperCase.
ToUpperCase(s) ==
    IF s = << >> THEN << >>
    ELSE ToUpperCaseChar(Head(s)) \o ToUpperCase(Tail(s))

(***************************************************************************)
(* The alphabets (main.ts lines 29-41).                                    *)
(***************************************************************************)
jsBase32Alphabet ==
    << "0", "1", "2", "3", "4", "5", "6", "7", "8", "9", "a", "b", "c", "d",
       "e", "f", "g", "h", "i", "j", "k", "l", "m", "n", "o", "p", "q", "r",
       "s", "t", "u", "v" >>

base32Alphabet ==
    << "0", "1", "2", "3", "4", "5", "6", "7", "8", "9", "A", "B", "C", "D",
       "E", "F", "G", "H", "J", "K", "M", "N", "P", "Q", "R", "S", "T", "V",
       "W", "X", "Y", "Z" >>

ALPHABET_LENGTH == Len(base32Alphabet)

\* A mutant of jsBase32Mapping: the digits of toString(32) are kept.
jsBase32MappingIdentity(char) == char

\* Object.fromEntries(jsBase32Alphabet.split("").map((char, index) =>
\*   [char, base32Alphabet[index]])).  A character that is no key reads as
\* "undefined", as an absent property does.
jsBase32Mapping(char) ==
    LET i == IndexOf(jsBase32Alphabet, char, 1)
    IN  IF i = 0 \/ i > Len(base32Alphabet) THEN "undefined" ELSE base32Alphabet[i]

\* A mutant of base32Mapping: the entry U: "V" is missing.
base32MappingWithoutU(c) ==
    CASE c = "O" -> "0"
      [] c = "L" -> "1"
      [] c = "I" -> "1"
      [] OTHER   -> c

\* base32Mapping[c] ?? c
base32Mapping(c) ==
    CASE c = "O" -> "0"
      [] c = "L" -> "1"
      [] c = "I" -> "1"
      [] c = "U" -> "V"
      [] OTHER   -> c

(***************************************************************************)
(* State.                                                                  *)
(***************************************************************************)
VARIABLES
    files,          \* the paths of the files in the vault (app.vault)
    activeFile,     \* app.workspace.getActiveFile(): a path or NoFile
    hashesToPaths,  \* NoteCodes.hashesToPaths
    pathsToHashes,  \* NoteCodes.pathsToHashes
    pending,        \* the addPath calls suspended at "await hashString(path)"
    microtasks,     \* the continuations of resolved awaits, in queue order
    statusText,     \* the text of statusBarItemEl
    statusFile,     \* the argument of the setStatusBar call started last
    suggestions,    \* the entries the open search modal lists
    clipboard,      \* the text navigator.clipboard holds
    digest,         \* the first bytes crypto.subtle.digest gives for NotePath
    out             \* what the last handler returned or showed, as events

vars == << files, activeFile, hashesToPaths, pathsToHashes, pending,
           microtasks, statusText, statusFile, suggestions, clipboard, digest,
           out >>

(***************************************************************************)
(* The hash (main.ts lines 44-58).                                         *)
(***************************************************************************)
\* The paths of the model: three real vault paths.  "note298.md" and
\* "note744.md" have SHA-256 digests whose first three bytes differ only in
\* the four bits the hash discards, so they share a code; "note2049.md" has
\* a code with the same first two symbols.
Paths == {"note298.md", "note744.md", "note2049.md"}

\* One more path, for which crypto.subtle.digest is replaced by a stub
\* that gives the bytes of the variable digest.
NotePath == "note.md"

\* The first three bytes of crypto.subtle.digest("SHA-256", utf8(path)).
DigestBytes(path) ==
    CASE path = "note298.md"  -> << 79, 183, 64 >>
      [] path = "note744.md"  -> << 207, 183, 64 >>
      [] path = "note2049.md" -> << 95, 182, 129 >>
      [] path = "note.md"     -> << 17, 136, 195 >>

\* The bytes the digest of path resolves with.
DigestOf(path) == IF path = NotePath THEN digest ELSE DigestBytes(path)

\* x << k for a byte x and k <= 16: the result stays below 2^24, so the
\* 32 bit wrap of the JavaScript operator never applies.
ShiftLeft(x, k) == x * 2^k

RECURSIVE BitOr(_, _)
\* x | y on non-negative integers.
BitOr(x, y) ==
    IF x = 0 THEN y
    ELSE IF y = 0 THEN x
    ELSE 2 * BitOr(x \div 2, y \div 2) + (IF x % 2 = 1 \/ y % 2 = 1 THEN 1 ELSE 0)

RECURSIVE NumToString(_, _)
\* Number.prototype.toString(radix) of a non-negative integer, radix <= 32.
NumToString(n, radix) ==
    IF n < radix THEN << jsBase32Alphabet[n + 1] >>
    ELSE NumToString(n \div radix, radix) \o << jsBase32Alphabet[(n % radix) + 1] >>

\* The code computed from the first three digest bytes.
HashOfBytes(bytes) ==
    LET num == BitOr(BitOr(ShiftLeft(bytes[1], 16), ShiftLeft(bytes[2], 8)),
                     ShiftLeft(bytes[3], 0)) % (ALPHABET_LENGTH ^ 4)
        str == PadStart(NumToString(num, ALPHABET_LENGTH), 4, "0")
        m   == [i \in 1..Len(str) |-> jsBase32Mapping(str[i])]
    IN  << m[1], m[2], "-", m[3], m[4] >>

\* The codes of the model's paths, computed once.
HashTable == [p \in Paths |-> HashOfBytes(DigestBytes(p))]

(***************************************************************************)
(* The bytes the stub of the digest of NotePath draws from.                *)
(***************************************************************************)
\* Values of the first digest byte: all values of its low four bits, and
\* high bits, which the hash discards.
FirstBytes == 0..15 \cup {17, 79, 95, 207, 240, 255}

\* Values of the second and third byte, to go with each other: all values
\* of the high six bits of the second and of the low five of the third.
SecondBytes == {b \in 0..255 : b % 4 = 0}
ThirdBytes == 0..31

\* The two low bits of the second byte and the three high bits of the
\* third make the third symbol of the code.
MiddleSecondBytes == {0, 1, 2, 3, 128}
MiddleThirdBytes == {b \in 0..255 : b % 32 = 0} \cup {31}

\* A few values of each byte, to go with all the values of another.
FewFirstBytes == {0, 240}
FewSecondBytes == {0, 131}
FewThirdBytes == {1, 129}

\* The first three digest bytes the stub draws from: each byte takes all its
\* values above while the others take a few; the digests of the four paths
\* of the model; and the largest bytes.
DigestSamples ==
    (FirstBytes \X FewSecondBytes \X FewThirdBytes)
    \cup (FewFirstBytes \X SecondBytes \X FewThirdBytes)
    \cup (FewFirstBytes \X FewSecondBytes \X ThirdBytes)
    \cup (FewFirstBytes \X MiddleSecondBytes \X MiddleThirdBytes)
    \cup {DigestBytes(p) : p \in Paths \cup {NotePath}}
    \cup {<< 255, 255, 255 >>, << 240, 0, 1 >>}

\* The first three digest bytes of sixteen codes that hold each of the 32
\* symbols twice: the symbols d, d + 16, d, d + 16, whose number is
\* d * (32^3 + 32^2 + 32 + 1) + 16 * (32^2 + 1).
TwoSymbolDigests ==
    {<< (d * 33825 + 16400) \div 65536, ((d * 33825 + 16400) \div 256) % 256,
        (d * 33825 + 16400) % 256 >> : d \in 0..15}

\* The digests the stub draws from where codes are copied: those, and the
\* digests of two paths of the model.
CodeSamples ==
    TwoSymbolDigests \cup {DigestBytes("note298.md"), DigestBytes(NotePath)}

\* The codes of the bytes of the stub, computed once.
StubTable == [b \in DigestSamples \cup CodeSamples |-> HashOfBytes(b)]

\* hashString(string): the value its promise resolves to.
hashString(string) ==
    IF string = NotePath THEN StubTable[digest] ELSE HashTable[string]

(***************************************************************************)
(* The formatter (main.ts lines 61-75).                                    *)
(***************************************************************************)
\* A mutant of FilterAlphabet: the separator passes the filter.
FilterAlphabetOrSeparator(s) ==
    SelectSeq(s, LAMBDA c : c = "-" \/ Includes(base32Alphabet, c))

\* Array.prototype.filter(c => base32Alphabet.includes(c)).
FilterAlphabet(s) == SelectSeq(s, LAMBDA c : Includes(base32Alphabet, c))

\* A mutant of formatHash: toUpperCase is left out.
formatHashWithoutUpperCase(hash) ==
    LET mapped   == [i \in 1..Len(hash) |-> base32Mapping(hash[i])]
        filtered == FilterAlphabet(mapped)
        h        == Slice(filtered, 0, 4)
    IN  IF Len(h) > 2 THEN Slice(h, 0, 2) \o << "-" >> \o Slice(h, 2, Len(h))
        ELSE h

formatHash(hash) ==
    LET upper    == ToUpperCase(hash)
        mapped   == [i \in 1..Len(upper) |-> base32Mapping(upper[i])]
        filtered == FilterAlphabet(mapped)
        h        == Slice(filtered, 0, 4)
    IN  IF Len(h) > 2 THEN Slice(h, 0, 2) \o << "-" >> \o Slice(h, 2, Len(h))
        ELSE h

\* The raw inputs typed into the search box or carried by a URL.
Queries ==
    { << >>,
      << "z" >>,
      << "z", "d" >>,
      << "z", "d", "-", "t" >>,
      << "z", "d", "t", "o" >>,
      << "Z", "D", "-", "M", "1" >>,
      << " ", "z", "d", "_", "m", "i", "9" >>,
      << "Z", "Z" >> }

\* The codes of NotePath under the stub, as the clipboard carries them, and
\* in lower case.
CopiedCodes ==
    LET codes == {StubTable[b] : b \in CodeSamples}
    IN  codes \cup {ToLowerCase(c) : c \in codes}

\* The raw inputs formatHash gets from the handlers of the model.
RawInputs == Queries \cup CopiedCodes

\* formatHash of the model's raw inputs, computed once.
FormatTable == [q \in RawInputs |-> formatHash(q)]

\* formatHash as the handlers call it.
FormatHash(raw) == IF raw \in RawInputs THEN FormatTable[raw] ELSE formatHash(raw)


(***************************************************************************)
(* The two Maps of the plugin (main.ts lines 123-124).                     *)
(*                                                                         *)
(* hashesToPaths is iterated by the search, so it is a sequence of Entry   *)
(* records in the iteration order of a JavaScript Map.  pathsToHashes is   *)
(* only read by key, so it is a function from the tracked paths to codes.  *)
(***************************************************************************)
\* What Map.prototype.get returns for an absent key.
Undefined == "undefined"
UndefinedHash == << "undefined" >>

\* JavaScript truthiness of a code read from pathsToHashes: undefined and
\* the empty string are falsy.
Truthy(hash) == hash # UndefinedHash /\ hash # << >>

RECURSIVE MapIndex(_, _, _)
\* The position >= i of key k in the Map m, 0 when k is no key.
MapIndex(m, k, i) ==
    IF i > Len(m) THEN 0
    ELSE IF m[i].hash = k THEN i
    ELSE MapIndex(m, k, i + 1)

MapHas(m, k) == MapIndex(m, k, 1) # 0

\* Map.prototype.get on hashesToPaths.
MapGet(m, k) ==
    LET i == MapIndex(m, k, 1)
    IN  IF i = 0 THEN Undefined ELSE m[i].path

\* A mutant of MapSet: an existing key keeps its old value.
MapSetKeepFirst(m, k, v) ==
    IF MapIndex(m, k, 1) = 0 THEN Append(m, [hash |-> k, path |-> v]) ELSE m

\* A mutant of MapSet: the entry is appended, whether the key exists or not.
MapSetAppend(m, k, v) == Append(m, [hash |-> k, path |-> v])

\* Map.prototype.set on hashesToPaths: an existing key keeps its position,
\* a new key goes last.
MapSet(m, k, v) ==
    LET i == MapIndex(m, k, 1)
    IN  IF i = 0 THEN Append(m, [hash |-> k, path |-> v])
        ELSE [m EXCEPT ![i] = [hash |-> k, path |-> v]]

\* Map.prototype.delete on hashesToPaths.
MapDelete(m, k) == SelectSeq(m, LAMBDA e : e.hash # k)

\* Map.prototype.get / set / delete on pathsToHashes.
PathGet(m, path) == IF path \in DOMAIN m THEN m[path] ELSE UndefinedHash

PathSet(m, path, hash) ==
    [q \in (DOMAIN m) \cup {path} |-> IF q = path THEN hash ELSE m[q]]

PathDelete(m, path) == [q \in (DOMAIN m) \ {path} |-> m[q]]

\* new Map()
EmptyPathMap == [q \in {} |-> UndefinedHash]

\* getActiveFile() === null
NoFile == "null"

\* The status bar text before any setText, and the placeholder.
EmptyText == << >>
Placeholder == << "_", "_", "-", "_", "_" >>

\* What precedes the hash in the text copyNoteCodeURL writes.
UrlPrefix == << "obsidian://note-codes/open?code=" >>

\* Who awaits a suspended addPath: the handler itself ("none": the bulk
\* load, create and rename discard the result), or getHashForPath on behalf
\* of setStatusBar ("status"), copyNoteCode ("copy"), copyNoteCodeURL
\* ("copyURL").
Callers == {"none", "status", "copy", "copyURL"}

\* A suspended addPath(path).  known records the code pathsToHashes held
\* for path when the call was made (UndefinedHash: none).
Call(path, caller, p2h) ==
    [path |-> path, caller |-> caller, known |-> PathGet(p2h, path)]

NumPending == BagCardinality(pending)

\* An entry of the microtask queue: the continuation of a handler that
\* awaits getHashForPath(path) for a tracked path, so that the promise is
\* already resolved with hash when the handler reaches its await.  After
\* "await this.getHashForPath(file.path)" in setStatusBar the caller resumes
\* in one turn of the queue; after "await this.getHashForActiveFile()",
\* which returns the promise of getHashForPath from an async function, in
\* three.
Microtask(caller, path, hash) ==
    [caller |-> caller, path |-> path, hash |-> hash,
     ticks |-> IF caller = "status" THEN 1 ELSE 3]

\* The calls suspended at any await.
NumInFlight == NumPending + Len(microtasks)

(***************************************************************************)
(* The index operations (main.ts lines 126-148).                           *)
(***************************************************************************)
\* A mutant of addPath: the write of pathsToHashes is missing.
addPathOneWrite(h2p, p2h, path) ==
    LET hash == hashString(path)
    IN  [h2p |-> MapSet(h2p, hash, path), p2h |-> p2h, hash |-> hash]

\* addPath after its await: the two writes.
addPath(h2p, p2h, path) ==
    LET hash == hashString(path)
    IN  [h2p |-> MapSet(h2p, hash, path),
         p2h |-> PathSet(p2h, path, hash),
         hash |-> hash]

\* A mutant of removePath: the entry of hashesToPaths is left behind.
removePathKeepsHash(h2p, p2h, path) ==
    [h2p |-> h2p, p2h |-> PathDelete(p2h, path)]

\* A mutant of removePath: the entry of pathsToHashes is left behind.
removePathKeepsPath(h2p, p2h, path) ==
    LET hash == PathGet(p2h, path)
    IN  [h2p |-> MapDelete(h2p, hash), p2h |-> p2h]

\* removePath: it has no await, so it runs to its end when called.
removePath(h2p, p2h, path) ==
    LET hash == PathGet(p2h, path)
    IN  IF Truthy(hash)
        THEN [h2p |-> MapDelete(h2p, hash), p2h |-> PathDelete(p2h, path)]
        ELSE [h2p |-> h2p, p2h |-> p2h]

\* The text a copy handler writes to the clipboard.
ClipboardText(caller, hash) ==
    IF caller = "copyURL" THEN UrlPrefix \o hash ELSE hash

\* The event of a getHashForPath that returns hash for path.
HashReturned(path, hash, lazy, caller) ==
    [op |-> "getHashForPath", path |-> path, hash |-> hash, lazy |-> lazy,
     caller |-> caller]

\* setStatusBar(file) up to its first await, from pathsToHashes p2h, with
\* calls pend suspended at the digest and continuations micro queued: the
\* calls suspended and the continuations queued afterwards, the text, and
\* the events.  With no file there is no await and the text is set at
\* once; with a tracked file getHashForPath returns at once and setText
\* waits for a turn of the microtask queue; else addPath is suspended.
setStatusBar(file, p2h, pend, micro, text) ==
    IF file = NoFile
    THEN [pending |-> pend, microtasks |-> micro, statusText |-> Placeholder,
          out |-> << >>]
    ELSE LET hash == PathGet(p2h, file)
         IN  IF Truthy(hash)
             THEN [pending |-> pend,
                   microtasks |-> Append(micro, Microtask("status", file, hash)),
                   statusText |-> text,
                   out |-> << HashReturned(file, hash, FALSE, "status") >>]
             ELSE [pending |-> pend (+) SetToBag({Call(file, "status", p2h)}),
                   microtasks |-> micro, statusText |-> text, out |-> << >>]

(***************************************************************************)
(* Initial states: the state onload leaves (main.ts lines 255-307).  Every *)
(* file of the vault has an addPath suspended, and so has the active file, *)
(* by setStatusBar; both Maps are still empty.                             *)
(***************************************************************************)
BulkLoad(fs) ==
    LET F[S \in SUBSET fs] ==
            IF S = {} THEN EmptyBag
            ELSE LET f == CHOOSE x \in S : TRUE
                 IN  F[S \ {f}] (+) SetToBag({Call(f, "none", EmptyPathMap)})
    IN  F[fs]

\* The state onload leaves for a vault whose files are among vault.
OnloadDone(vault) ==
    /\ files \in SUBSET vault
    /\ activeFile \in files \cup {NoFile}
    /\ hashesToPaths = << >>
    /\ pathsToHashes = EmptyPathMap
    /\ LET sb == setStatusBar(activeFile, EmptyPathMap, BulkLoad(files), << >>,
                              EmptyText)
       IN  /\ pending = sb.pending
           /\ microtasks = sb.microtasks
           /\ statusText = sb.statusText
           /\ out = sb.out
    /\ statusFile = activeFile
    /\ suggestions = << >>
    /\ clipboard = << >>
    /\ NumPending <= MaxPending

Init ==
    /\ OnloadDone(Paths)
    /\ digest = DigestBytes(NotePath)

(***************************************************************************)
(* File events (main.ts lines 264-274).                                    *)
(***************************************************************************)
\* vault "create": this.addPath(file.path)
Create(path) ==
    /\ path \notin files
    /\ NumInFlight + 1 <= MaxPending
    /\ files' = files \cup {path}
    /\ pending' = pending (+) SetToBag({Call(path, "none", pathsToHashes)})
    /\ out' = << >>
    /\ UNCHANGED << activeFile, hashesToPaths, pathsToHashes, microtasks,
                    statusText, statusFile, suggestions, clipboard, digest >>

\* vault "delete": this.removePath(file.path).  A deleted active file is
\* closed.
Delete(path) ==
    /\ path \in files
    /\ files' = files \ {path}
    /\ activeFile' = IF activeFile = path THEN NoFile ELSE activeFile
    /\ LET r == removePath(hashesToPaths, pathsToHashes, path)
       IN  /\ hashesToPaths' = r.h2p
           /\ pathsToHashes' = r.p2h
    /\ out' = << [op |-> "removePath", path |-> path] >>
    /\ UNCHANGED << pending, microtasks, statusText, statusFile, suggestions,
                    clipboard, digest >>

\* vault "rename": removePath(oldPath); addPath(file.path);
\* setStatusBar(getActiveFile()).  The renamed file keeps being the active
\* one under its new path.
Rename(oldPath, newPath) ==
    /\ oldPath \in files
    /\ newPath \notin files
    /\ files' = (files \ {oldPath}) \cup {newPath}
    /\ activeFile' = IF activeFile = oldPath THEN newPath ELSE activeFile
    /\ LET r  == removePath(hashesToPaths, pathsToHashes, oldPath)
           p1 == pending (+) SetToBag({Call(newPath, "none", r.p2h)})
           sb == setStatusBar(activeFile', r.p2h, p1, microtasks, statusText)
       IN  /\ BagCardinality(sb.pending) + Len(sb.microtasks) <= MaxPending
           /\ hashesToPaths' = r.h2p
           /\ pathsToHashes' = r.p2h
           /\ pending' = sb.pending
           /\ microtasks' = sb.microtasks
           /\ statusText' = sb.statusText
           /\ out' = << [op |-> "removePath", path |-> oldPath],
                         [op |-> "rename", old |-> oldPath, new |-> newPath,
                          tracked |-> DOMAIN pathsToHashes] >> \o sb.out
    /\ statusFile' = activeFile'
    /\ UNCHANGED << suggestions, clipboard, digest >>

\* workspace "file-open": this.setStatusBar(file)
FileOpen(file) ==
    /\ file \in files \cup {NoFile}
    /\ activeFile' = file
    /\ LET sb == setStatusBar(file, pathsToHashes, pending, microtasks, statusText)
       IN  /\ BagCardinality(sb.pending) + Len(sb.microtasks) <= MaxPending
           /\ pending' = sb.pending
           /\ microtasks' = sb.microtasks
           /\ statusText' = sb.statusText
           /\ out' = sb.out
    /\ statusFile' = file
    /\ UNCHANGED << files, hashesToPaths, pathsToHashes, suggestions, clipboard,
                    digest >>

(***************************************************************************)
(* The copy commands (main.ts lines 176-196).                              *)
(***************************************************************************)
\* copyNoteCode / copyNoteCodeURL for caller "copy" / "copyURL", up to the
\* first await: getHashForActiveFile, then getHashForPath.  With no active
\* file nothing follows; with a tracked one the clipboard write waits in
\* the microtask queue; else addPath is suspended.  The command may add one
\* call to the MaxPending calls of the file events.
CopyHandler(caller) ==
    /\ IF activeFile = NoFile
       THEN /\ out' = << >>
            /\ UNCHANGED << pending, microtasks >>
       ELSE LET hash == PathGet(pathsToHashes, activeFile)
            IN  /\ NumInFlight <= MaxPending
                /\ IF Truthy(hash)
                   THEN /\ out' = << HashReturned(activeFile, hash, FALSE, caller) >>
                        /\ microtasks' =
                               Append(microtasks, Microtask(caller, activeFile, hash))
                        /\ UNCHANGED pending
                   ELSE /\ pending' = pending (+)
                               SetToBag({Call(activeFile, caller, pathsToHashes)})
                        /\ out' = << >>
                        /\ UNCHANGED microtasks
    /\ UNCHANGED << files, activeFile, hashesToPaths, pathsToHashes, statusText,
                    statusFile, suggestions, clipboard, digest >>

CopyNoteCode == CopyHandler("copy")

CopyNoteCodeURL == CopyHandler("copyURL")

(***************************************************************************)
(* The digest of a suspended addPath resolves (main.ts lines 46 and 127),  *)
(* in an event-loop task of its own.  The task starts with the microtask   *)
(* queue empty and runs no code of the host: nothing of the host is        *)
(* chained to a promise of the plugin, so the queue holds the plugin's     *)
(* continuations only, they run one after the other, and no handler is     *)
(* called before the queue is empty again.  The whole chain is one step:   *)
(*   hashString resumes from "await crypto.subtle.digest", computes the    *)
(*   code and returns it (lines 46-57);                                    *)
(*   addPath resumes, writes both Maps and returns (lines 128-130);        *)
(*   getHashForPath, when it awaits the call, returns what addPath         *)
(*   returned (line 146);                                                  *)
(*   its caller resumes: setStatusBar sets the text (line 230), the copy   *)
(*   commands write the clipboard (lines 187 and 194).                     *)
(* The events record the code hashString gave, the code the call found     *)
(* when it was made (known) and the code pathsToHashes held right before   *)
(* the writes (before).                                                    *)
(***************************************************************************)
AddPathResume(call) ==
    /\ BagIn(call, pending)
    /\ microtasks = << >>
    /\ pending' = pending (-) SetToBag({call})
    /\ LET r == addPath(hashesToPaths, pathsToHashes, call.path)
           hashed == << [op |-> "hashString", string |-> call.path,
                         bytes |-> DigestOf(call.path),
                         hash |-> hashString(call.path)],
                        [op |-> "addPath", path |-> call.path, hash |-> r.hash,
                         known |-> call.known,
                         before |-> PathGet(pathsToHashes, call.path)] >>
           returned == HashReturned(call.path, r.hash, TRUE, call.caller)
       IN  /\ hashesToPaths' = r.h2p
           /\ pathsToHashes' = r.p2h
           /\ CASE call.caller = "none" ->
                    /\ out' = hashed
                    /\ UNCHANGED << statusText, clipboard >>
                [] call.caller = "status" ->
                    /\ statusText' = r.hash
                    /\ out' = Append(hashed, returned)
                    /\ UNCHANGED clipboard
                [] OTHER ->
                    /\ clipboard' = ClipboardText(call.caller, r.hash)
                    /\ out' = hashed \o
                              << returned,
                                 [op |-> "clipboard",
                                  text |-> ClipboardText(call.caller, r.hash)] >>
                    /\ UNCHANGED statusText
    /\ UNCHANGED << files, activeFile, microtasks, statusFile, suggestions,
                    digest >>

(***************************************************************************)
(* A turn of the microtask queue in a task of the host: the continuation   *)
(* at its head runs and, when it has turns left, goes to the end of the    *)
(* queue.  The host calls the handlers synchronously, from its own         *)
(* continuations too, so in such a task a handler can run between two      *)
(* turns.  At its last turn setStatusBar sets the text (line 230) and the  *)
(* copy commands write the clipboard (lines 187 and 194).                  *)
(***************************************************************************)
RunMicrotask ==
    /\ microtasks # << >>
    /\ LET job  == Head(microtasks)
           rest == Tail(microtasks)
       IN  IF job.ticks > 1
           THEN /\ microtasks' = Append(rest, [job EXCEPT !.ticks = @ - 1])
                /\ out' = << >>
                /\ UNCHANGED << statusText, clipboard >>
           ELSE /\ microtasks' = rest
                /\ statusText' = IF job.caller = "status" THEN job.hash
                                 ELSE statusText
                /\ clipboard' = IF job.caller = "status" THEN clipboard
                                ELSE ClipboardText(job.caller, job.hash)
                /\ out' = IF job.caller = "status" THEN << >>
                          ELSE << [op |-> "clipboard",
                                   text |-> ClipboardText(job.caller, job.hash)] >>
    /\ UNCHANGED << files, activeFile, hashesToPaths, pathsToHashes, pending,
                    statusFile, suggestions, digest >>

(***************************************************************************)
(* Lookup and search (main.ts lines 101-113 and 198-220).                  *)
(***************************************************************************)
RECURSIVE ScanEntries(_, _, _, _)
\* The loop of getSuggestions over hashesToPaths.entries(), from entry i on.
ScanEntries(m, query, i, results) ==
    IF i > Len(m) THEN results
    ELSE ScanEntries(m, query, i + 1,
                     IF StartsWith(m[i].hash, query)
                     THEN Append(results, [hash |-> m[i].hash, path |-> m[i].path])
                     ELSE results)

\* A mutant of getSuggestions: the query is not formatted before the scan.
getSuggestionsUnformatted(m, query) == ScanEntries(m, query, 1, << >>)

getSuggestions(m, query) == ScanEntries(m, FormatHash(query), 1, << >>)

\* What a call of getSuggestions(query) does: the text it writes to inputEl
\* and the entries it returns.
SuggestionsReturned(m, query) ==
    [op |-> "getSuggestions", query |-> query, input |-> FormatHash(query),
     results |-> getSuggestions(m, query)]

\* NCSuggestModal.getSuggestions(query), the call by itself.
GetSuggestions(query) ==
    /\ query \in Queries
    /\ out' = << SuggestionsReturned(hashesToPaths, query) >>
    /\ UNCHANGED << files, activeFile, hashesToPaths, pathsToHashes, pending,
                    microtasks, statusText, statusFile, suggestions, clipboard,
                    digest >>

\* The user types query into the modal openSearchModal opened: the modal
\* calls getSuggestions(query) and lists the entries returned, until the
\* next query or the choice of an entry.
ShowSuggestions(query) ==
    /\ query \in Queries
    /\ out' = << SuggestionsReturned(hashesToPaths, query) >>
    /\ suggestions' = getSuggestions(hashesToPaths, query)
    /\ UNCHANGED << files, activeFile, hashesToPaths, pathsToHashes, pending,
                    microtasks, statusText, statusFile, clipboard, digest >>

\* A mutant of openNoteForHash: the first entry whose code starts with the
\* formatted input is resolved.
openNoteForHashByPrefix(m, fs, raw) ==
    LET hash == FormatHash(raw)
        hits == ScanEntries(m, hash, 1, << >>)
    IN  IF hits = << >>
        THEN [op |-> "openNoteForHash", raw |-> raw, hash |-> hash,
              path |-> Undefined, result |-> "No such note code",
              shown |-> hash \o [i \in 1..(5 - Len(hash)) |-> "_"]]
        ELSE [op |-> "openNoteForHash", raw |-> raw, hash |-> hash,
              path |-> hits[1].path,
              result |-> IF hits[1].path \in fs THEN "openFile"
                         ELSE "File not found",
              shown |-> << >>]

\* openNoteForHash(hash): the path it resolves to (Undefined: the notice
\* "No such note code"), and whether the file is opened or "File not found"
\* is shown.
openNoteForHash(m, fs, raw) ==
    LET hash == FormatHash(raw)
        path == MapGet(m, hash)
    IN  IF path = Undefined \/ path = ""
        THEN [op |-> "openNoteForHash", raw |-> raw, hash |-> hash,
              path |-> Undefined, result |-> "No such note code",
              shown |-> hash \o [i \in 1..(5 - Len(hash)) |-> "_"]]
        ELSE [op |-> "openNoteForHash", raw |-> raw, hash |-> hash,
              path |-> path,
              result |-> IF path \in fs THEN "openFile" ELSE "File not found",
              shown |-> << >>]

\* The obsidian://note-codes/open handler.
OpenNoteForHash(raw) ==
    /\ raw \in Queries
    /\ out' = << openNoteForHash(hashesToPaths, files, raw) >>
    /\ UNCHANGED << files, activeFile, hashesToPaths, pathsToHashes, pending,
                    microtasks, statusText, statusFile, suggestions, clipboard,
                    digest >>

\* NCSuggestModal.onChooseSuggestion({ hash, path }) for the i-th entry the
\* modal lists: this.plugin.openNoteForHash(hash).  The modal closes.
OnChooseSuggestion(i) ==
    /\ i \in 1..Len(suggestions)
    /\ out' = << [op |-> "onChooseSuggestion", hash |-> suggestions[i].hash,
                  path |-> suggestions[i].path],
                 openNoteForHash(hashesToPaths, files, suggestions[i].hash) >>
    /\ suggestions' = << >>
    /\ UNCHANGED << files, activeFile, hashesToPaths, pathsToHashes, pending,
                    microtasks, statusText, statusFile, clipboard, digest >>

(***************************************************************************)
(* The specification.                                                      *)
(***************************************************************************)
Next ==
    \/ \E path \in Paths : Create(path)
    \/ \E path \in Paths : Delete(path)
    \/ \E oldPath, newPath \in Paths : Rename(oldPath, newPath)
    \/ \E file \in Paths \cup {NoFile} : FileOpen(file)
    \/ \E call \in BagToSet(pending) : AddPathResume(call)
    \/ RunMicrotask

Spec == Init /\ [][Next]_vars

(***************************************************************************)
(* The same with the copy commands of the menu and the command palette.    *)
(***************************************************************************)
NextCopy ==
    \/ Next
    \/ CopyNoteCode
    \/ CopyNoteCodeURL

CopySpec == Init /\ [][NextCopy]_vars

(***************************************************************************)
(* The search and the open-by-code handler read the index and change       *)
(* nothing.  They are specified with the file events of a session in which *)
(* no file is opened in the workspace.                                     *)
(***************************************************************************)
InitLookup == Init /\ activeFile = NoFile

NextLookup ==
    \/ \E path \in Paths : Create(path)
    \/ \E path \in Paths : Delete(path)
    \/ \E oldPath, newPath \in Paths : Rename(oldPath, newPath)
    \/ \E call \in BagToSet(pending) : AddPathResume(call)
    \/ \E query \in Queries : GetSuggestions(query)
    \/ \E raw \in Queries : OpenNoteForHash(raw)

LookupSpec == InitLookup /\ [][NextLookup]_vars

(***************************************************************************)
(* The search modal: the entries it lists stay on the screen while the     *)
(* file events go on, until the user chooses one of them.                  *)
(***************************************************************************)
NextModal ==
    \/ \E path \in Paths : Create(path)
    \/ \E path \in Paths : Delete(path)
    \/ \E oldPath, newPath \in Paths : Rename(oldPath, newPath)
    \/ \E call \in BagToSet(pending) : AddPathResume(call)
    \/ \E query \in Queries : ShowSuggestions(query)
    \/ \E i \in 1..Len(suggestions) : OnChooseSuggestion(i)

ModalSpec == InitLookup /\ [][NextModal]_vars


(***************************************************************************)
(* Helpers of the properties.                                              *)
(***************************************************************************)
\* The events of the last step with operation op.
Events(o, op) == {o[i] : i \in {j \in 1..Len(o) : o[j].op = op}}

\* The entries of hashesToPaths, as a set.
EntrySet(m) == {m[i] : i \in 1..Len(m)}

\* The paths pathsToHashes tracks.
Tracked == DOMAIN pathsToHashes

(***************************************************************************)
(* C1  Index consistency: for every path p that pathsToHashes tracks under *)
(* a code c, hashesToPaths has an entry for c (for p or for another path   *)
(* with the same code).                                                    *)
(* The code breaks it: removePath of one of two colliding paths deletes    *)
(* the shared entry of hashesToPaths.                                      *)
(***************************************************************************)
C1_IndexConsistency ==
    \A p \in Tracked : MapHas(hashesToPaths, pathsToHashes[p])

(***************************************************************************)
(* C2  Stale-entry freedom: once every started hash computation has        *)
(* completed, every tracked path is a file that exists.                    *)
(* The code breaks it: a delete (or rename) handled while the addPath of   *)
(* the path is suspended removes nothing, and the addPath then writes.     *)
(***************************************************************************)
C2_NoStaleEntryAtQuiescence ==
    pending = EmptyBag => Tracked \subseteq files

\* No two tracked paths share a code.
NoSharedCode ==
    \A p, q \in Tracked : pathsToHashes[p] = pathsToHashes[q] => p = q

\* The two Maps are inverses of each other.
ExactInverses ==
    /\ \A p \in Tracked : MapGet(hashesToPaths, pathsToHashes[p]) = p
    /\ \A e \in EntrySet(hashesToPaths) :
          e.path \in Tracked /\ pathsToHashes[e.path] = e.hash
    /\ Len(hashesToPaths) = Cardinality(Tracked)

(***************************************************************************)
(* C3  Exact inverses: in every state of an execution in which no two      *)
(* tracked paths ever share a code, states with suspended addPath calls    *)
(* included, pathsToHashes[p] = c exactly when hashesToPaths[c] = p.       *)
(***************************************************************************)
C3_ExactInverses == ([]NoSharedCode) => []ExactInverses

\* Two paths are tracked, each owning its code, while an addPath is
\* suspended on its digest.
C3_Witness ==
    /\ Cardinality(Tracked) = 2
    /\ NoSharedCode
    /\ ExactInverses
    /\ pending # EmptyBag

(***************************************************************************)
(* C4  addPath is a no-op on an already tracked path: if pathsToHashes has *)
(* an entry for p when addPath(p) is called, the call returns that code    *)
(* and leaves both Maps exactly as they were.                              *)
(* The code breaks it: addPath has no test for a tracked path              *)
(* (getHashForPath has one); it always hashes and writes, so it tracks p   *)
(* again when p was removed while the call was suspended, and it takes the *)
(* entry of its code back from a colliding path.                           *)
(***************************************************************************)
C4_AddPathOnTrackedIsNoOp ==
    [][ \A e \in Events(out', "addPath") :
          Truthy(e.known) =>
             /\ e.hash = e.known
             /\ hashesToPaths' = hashesToPaths
             /\ pathsToHashes' = pathsToHashes ]_vars

(***************************************************************************)
(* C5  removePath(p) touches only p's own entry: for an untracked p both   *)
(* Maps stay as they were; for a tracked p, p leaves pathsToHashes, every  *)
(* other entry of pathsToHashes stays, and every entry of hashesToPaths    *)
(* whose value is another path stays.                                      *)
(* The code breaks it: removePath deletes the entry of p's code from       *)
(* hashesToPaths, whichever path that entry holds.                         *)
(***************************************************************************)
C5_RemovePathTouchesOnlyItsEntry ==
    [][ \A e \in Events(out', "removePath") :
          /\ e.path \notin Tracked =>
                /\ hashesToPaths' = hashesToPaths
                /\ pathsToHashes' = pathsToHashes
          /\ e.path \in Tracked =>
                /\ e.path \notin DOMAIN pathsToHashes'
                /\ \A q \in Tracked \ {e.path} :
                      /\ q \in DOMAIN pathsToHashes'
                      /\ pathsToHashes'[q] = pathsToHashes[q]
                /\ \A en \in EntrySet(hashesToPaths) :
                      en.path # e.path => en \in EntrySet(hashesToPaths') ]_vars

\* p and q are tracked under their common code, which q owns.
BothTrackedLastOwns(p, q, p2h, h2p) ==
    /\ PathGet(p2h, p) = hashString(p)
    /\ PathGet(p2h, q) = hashString(q)
    /\ MapGet(h2p, hashString(q)) = q

(***************************************************************************)
(* C6  Collision tolerance, last write wins: when addPath(q) completes     *)
(* while a distinct path p with the same code is tracked, p and q are both *)
(* tracked under that code and hashesToPaths maps the code to q; and that  *)
(* stays so until p or q is removed or an addPath(p) completes.            *)
(***************************************************************************)
C6_LastWriteWins ==
    [][ \A p, q \in Paths :
          (p # q /\ hashString(p) = hashString(q)) =>
             /\ (p \in Tracked /\ \E e \in Events(out', "addPath") : e.path = q)
                   => BothTrackedLastOwns(p, q, pathsToHashes', hashesToPaths')
             /\ ( /\ BothTrackedLastOwns(p, q, pathsToHashes, hashesToPaths)
                  /\ \A e \in Events(out', "removePath") : e.path \notin {p, q}
                  /\ \A e \in Events(out', "addPath") : e.path # p )
                   => BothTrackedLastOwns(p, q, pathsToHashes', hashesToPaths') ]_vars

\* An addPath has just completed for a path whose code another tracked
\* path had before it.
C6_Witness ==
    \E e \in Events(out, "addPath") :
       \E p \in Tracked \ {e.path} :
          /\ pathsToHashes[p] = e.hash
          /\ MapGet(hashesToPaths, e.hash) = e.path
          /\ Truthy(PathGet(pathsToHashes, e.path))

(***************************************************************************)
(* C7  getHashForPath tracks every queried path: when getHashForPath(p)    *)
(* returns a code c, pathsToHashes[p] = c and c = hashString(p), whether p *)
(* was tracked at the call or added lazily, whatever was handled while the *)
(* call was suspended on the digest.                                       *)
(***************************************************************************)
C7_GetHashForPathTracks ==
    \A e \in Events(out, "getHashForPath") :
       /\ PathGet(pathsToHashes, e.path) = e.hash
       /\ e.hash = hashString(e.path)

\* getHashForPath has just returned lazily for a path that was deleted
\* while the call was suspended on the digest.
C7_Witness ==
    \E e \in Events(out, "getHashForPath") : e.lazy /\ e.path \notin files

(***************************************************************************)
(* C8  Rename atomicity: when the addPath(new) of a rename completes right *)
(* after the rename was handled, with nothing in between, and old was      *)
(* tracked, then old is not tracked, new is tracked under hashString(new), *)
(* hashesToPaths maps that code to new, and the tracked paths are the      *)
(* former ones with old replaced by new (so exactly new when only old was  *)
(* tracked).                                                               *)
(***************************************************************************)
C8_RenameAtomicity ==
    [][ \A r \in Events(out, "rename") :
          \A e \in Events(out', "addPath") :
             (e.path = r.new /\ r.old \in r.tracked) =>
                /\ r.old \notin DOMAIN pathsToHashes'
                /\ PathGet(pathsToHashes', r.new) = hashString(r.new)
                /\ MapGet(hashesToPaths', hashString(r.new)) = r.new
                /\ DOMAIN pathsToHashes' = (r.tracked \ {r.old}) \cup {r.new} ]_vars

\* A rename of the only tracked path has just been handled: old is removed
\* and the addPath of new is suspended, about to complete.
C8_Witness ==
    \E r \in Events(out, "rename") :
       /\ r.tracked = {r.old}
       /\ Tracked = {}
       /\ \E c \in BagToSet(pending) : c.path = r.new /\ c.caller = "none"

\* prefix is an initial segment of s.
IsPrefix(prefix, s) ==
    /\ Len(prefix) <= Len(s)
    /\ \A k \in 1..Len(prefix) : s[k] = prefix[k]

\* The codes that are keys of the Map m.
Keys(m) == {m[i].hash : i \in 1..Len(m)}

\* The results of the search event e are the entries of m that match its
\* formatted query, each once, in the order of m.
SearchReturnsMatchesInOrder(e, m) ==
    /\ e.input = FormatHash(e.query)
    /\ \A i \in 1..Len(e.results) :
          /\ e.results[i] \in EntrySet(m)
          /\ IsPrefix(e.input, e.results[i].hash)
    /\ \A en \in EntrySet(m) :
          IsPrefix(e.input, en.hash) =>
             Cardinality({i \in 1..Len(e.results) : e.results[i] = en}) = 1
    /\ \A i, j \in 1..Len(e.results) :
          i < j => MapIndex(m, e.results[i].hash, 1) < MapIndex(m, e.results[j].hash, 1)

\* A step keeps the order of the codes it keeps and puts the codes it
\* inserts last; no code is a key twice.
IterationOrderIsInsertionOrder ==
    /\ \A c, d \in Keys(hashesToPaths) \cap Keys(hashesToPaths') :
          MapIndex(hashesToPaths, c, 1) < MapIndex(hashesToPaths, d, 1)
             => MapIndex(hashesToPaths', c, 1) < MapIndex(hashesToPaths', d, 1)
    /\ \A c \in Keys(hashesToPaths') \ Keys(hashesToPaths) :
          \A d \in Keys(hashesToPaths') \cap Keys(hashesToPaths) :
             MapIndex(hashesToPaths', d, 1) < MapIndex(hashesToPaths', c, 1)
    /\ Len(hashesToPaths') = Cardinality(Keys(hashesToPaths'))

(***************************************************************************)
(* C9  Prefix search: getSuggestions(query) returns exactly the entries of *)
(* hashesToPaths whose code starts with formatHash(query), each once, in   *)
(* the iteration order of hashesToPaths (none when no code matches); and   *)
(* that order is the insertion order: a step keeps the relative order of   *)
(* the codes it keeps (an overwritten code stays in place) and puts a code *)
(* it inserts (a new one, or one deleted before) after all of them.        *)
(***************************************************************************)
C9_PrefixSearch ==
    /\ [](\A e \in Events(out, "getSuggestions") :
             SearchReturnsMatchesInOrder(e, hashesToPaths))
    /\ [][IterationOrderIsInsertionOrder]_vars

\* A search for "zd" has returned both entries, the code of "note2049.md",
\* inserted first, before the code the two other paths share.
C9_Witness ==
    \E e \in Events(out, "getSuggestions") :
       /\ e.query = << "z", "d" >>
       /\ Len(e.results) = 2
       /\ e.results[1].path = "note2049.md"

\* The symbols of a formatted code: its characters but the separator.
NumSymbols(hash) == Len(SelectSeq(hash, LAMBDA c : c # "-"))

(***************************************************************************)
(* C10  Exact resolution: openNoteForHash(raw) resolves to a path exactly  *)
(* when hashesToPaths has the key formatHash(raw), and then to the path of *)
(* that entry; an input whose formatted form has fewer than 4 symbols is   *)
(* reported as not found and resolves to no path.                          *)
(***************************************************************************)
C10_ExactResolution ==
    \A e \in Events(out, "openNoteForHash") :
       LET h == FormatHash(e.raw)
       IN  /\ e.hash = h
           /\ e.path # Undefined <=> h \in Keys(hashesToPaths)
           /\ e.path # Undefined =>
                 [hash |-> h, path |-> e.path] \in EntrySet(hashesToPaths)
           /\ e.path = Undefined <=> e.result = "No such note code"
           /\ NumSymbols(h) < 4 =>
                 e.path = Undefined /\ e.result = "No such note code"

\* A partial code of three symbols that is a prefix of a code of the index
\* has been reported as not found.
C10_Witness ==
    \E e \in Events(out, "openNoteForHash") :
       /\ NumSymbols(e.hash) = 3
       /\ e.path = Undefined
       /\ \E en \in EntrySet(hashesToPaths) : IsPrefix(e.hash, en.hash)

(***************************************************************************)
(* The formatter by itself: a caller builds a string, character by         *)
(* character, and formatHash is applied to it (main.ts lines 102 and 199). *)
(* Nothing else happens; the vault is empty.                               *)
(***************************************************************************)
MaxLen == 4

\* The characters of the strings: a lower-case letter and a digit of the
\* alphabet, letters the formatter substitutes, in both cases, the
\* separator, which is outside the alphabet, and three characters outside
\* ASCII that toUpperCase turns into letters: U+00DF into "SS", U+0131 into
\* "I", U+FB01 into "FI".
FormatChars == {"z", "9", "o", "L", "u", "-", "U+00DF", "U+0131", "U+FB01"}

InitEmptyVault == Init /\ files = {}

\* The string built so far.
RawInput == IF out = << >> THEN << >> ELSE out[1].raw

\* One more character of the argument of formatHash.
TypeChar(c) ==
    /\ c \in FormatChars
    /\ Len(RawInput) < MaxLen
    /\ out' = << [op |-> "input", raw |-> Append(RawInput, c)] >>
    /\ UNCHANGED << files, activeFile, hashesToPaths, pathsToHashes, pending,
                    microtasks, statusText, statusFile, suggestions, clipboard,
                    digest >>

\* formatHash(hash) on the string built.
ApplyFormatHash ==
    /\ Events(out, "formatHash") = {}
    /\ out' = << [op |-> "formatHash", raw |-> RawInput,
                  hash |-> formatHash(RawInput)] >>
    /\ UNCHANGED << files, activeFile, hashesToPaths, pathsToHashes, pending,
                    microtasks, statusText, statusFile, suggestions, clipboard,
                    digest >>

NextFormat ==
    \/ \E c \in FormatChars : TypeChar(c)
    \/ ApplyFormatHash

FormatSpec == InitEmptyVault /\ [][NextFormat]_vars

(***************************************************************************)
(* C11  Formatter idempotence: formatting what formatHash returned returns *)
(* it unchanged, formatHash(formatHash(s)) = formatHash(s) for every       *)
(* string s.                                                               *)
(***************************************************************************)
C11_FormatterIdempotent ==
    \A e \in Events(out, "formatHash") : formatHash(e.hash) = e.hash

\* formatHash has turned a string into a different one, a full code.
C11_Witness ==
    \E e \in Events(out, "formatHash") :
        /\ Len(e.hash) = 5
        /\ e.hash # e.raw
        /\ formatHash(e.hash) = e.hash

\* The 32 symbols of the codes, as the specification spells them.
CanonicalAlphabet ==
    << "0", "1", "2", "3", "4", "5", "6", "7", "8", "9", "A", "B", "C", "D",
       "E", "F", "G", "H", "J", "K", "M", "N", "P", "Q", "R", "S", "T", "V",
       "W", "X", "Y", "Z" >>

CanonicalSymbols == {CanonicalAlphabet[i] : i \in 1..Len(CanonicalAlphabet)}

\* The canonical symbol an upper-case character stands for, "" when it
\* stands for none.
SymbolOf(u) ==
    IF u = "O" THEN "0"
    ELSE IF u = "L" \/ u = "I" THEN "1"
    ELSE IF u = "U" THEN "V"
    ELSE IF u \in CanonicalSymbols THEN u
    ELSE ""

\* The canonical symbols of a string, upper-cased, in the order of the
\* string.
SymbolsOf(s) ==
    LET u == ToUpperCase(s)
    IN  SelectSeq([i \in 1..Len(u) |-> SymbolOf(u[i])], LAMBDA x : x # "")

\* The first at most four symbols, separated after the second when there
\* are more than two.
Separated(syms) ==
    LET n == IF Len(syms) < 4 THEN Len(syms) ELSE 4
    IN  IF n > 2 THEN << syms[1], syms[2], "-" >> \o SubSeq(syms, 3, n)
        ELSE SubSeq(syms, 1, n)

\* One of the forms "", X, XX, XX-X, XX-XX.
HasCodeForm(h) ==
    /\ Len(h) \in {0, 1, 2, 4, 5}
    /\ \A i \in 1..Len(h) : IF i = 3 THEN h[i] = "-" ELSE h[i] \in CanonicalSymbols

(***************************************************************************)
(* C12  Formatter output shape: formatHash(s) is the first at most four    *)
(* canonical symbols of s (upper-cased, O, L, I, U substituted, every      *)
(* other character dropped, order kept), with "-" after the second symbol  *)
(* exactly when there are more than two; it has one of the forms "", X,    *)
(* XX, XX-X, XX-XX.                                                        *)
(***************************************************************************)
C12_FormatterOutputShape ==
    \A e \in Events(out, "formatHash") :
        /\ e.hash = Separated(SymbolsOf(e.raw))
        /\ HasCodeForm(e.hash)
        /\ (\E i \in 1..Len(e.hash) : e.hash[i] = "-") <=> Len(SymbolsOf(e.raw)) > 2

\* A string with a substituted letter and a separator of its own has been
\* formatted to three symbols.
C12_Witness ==
    \E e \in Events(out, "formatHash") :
        /\ Len(e.hash) = 4
        /\ \E i \in 1..Len(e.raw) : e.raw[i] = "u"
        /\ \E i \in 1..Len(e.raw) : e.raw[i] = "-"
        /\ e.raw[1] = "-"

(***************************************************************************)
(* The hash by itself: the vault holds at most one note, NotePath, and the *)
(* digest of its path is a stub that resolves with any first three bytes.  *)
(* The addPath calls of onload resume and store the code.                  *)
(***************************************************************************)
InitHash ==
    /\ OnloadDone({NotePath})
    /\ digest \in DigestSamples

NextHash == \E call \in BagToSet(pending) : AddPathResume(call)

HashSpec == InitHash /\ [][NextHash]_vars

(***************************************************************************)
(* C13  Alphabet closure: whatever the first three digest bytes are,       *)
(* hashString returns a string of length 5 whose third character is "-"    *)
(* and whose other four characters are among                               *)
(* 0123456789ABCDEFGHJKMNPQRSTVWXYZ.                                       *)
(***************************************************************************)
C13_AlphabetClosure ==
    \A e \in Events(out, "hashString") :
        /\ Len(e.hash) = 5
        /\ e.hash[3] = "-"
        /\ \A i \in {1, 2, 4, 5} : e.hash[i] \in CanonicalSymbols

\* A code whose digits are all above 9: toString(32) wrote four letters.
C13_Witness ==
    \E e \in Events(out, "hashString") :
        /\ e.bytes = << 255, 255, 255 >>
        /\ e.hash = << "Z", "Z", "-", "Z", "Z" >>

\* The number the specification gives for the bytes b: their big-endian
\* value modulo 32^4.
HashNumber(b) == (b[1] * 65536 + b[2] * 256 + b[3]) % (32 * 32 * 32 * 32)

\* The k-th base-32 digit of n, the most significant of four being the
\* first.
Base32Digit(n, k) == (n \div (32 ^ (4 - k))) % 32

(***************************************************************************)
(* C17  Hash value: for first digest bytes b0, b1, b2 the four symbols of  *)
(* the code are the base-32 digits, most significant first and padded with *)
(* the zero digit to four, of (b0*65536 + b1*256 + b2) mod 32^4, the digit *)
(* d written as the d-th character of the canonical alphabet; the number   *)
(* is never negative and only the low 20 of the 24 bits count.             *)
(***************************************************************************)
C17_HashValue ==
    \A e \in Events(out, "hashString") :
        LET n == HashNumber(e.bytes)
        IN  /\ n >= 0
            /\ e.hash = << CanonicalAlphabet[Base32Digit(n, 1) + 1],
                           CanonicalAlphabet[Base32Digit(n, 2) + 1],
                           "-",
                           CanonicalAlphabet[Base32Digit(n, 3) + 1],
                           CanonicalAlphabet[Base32Digit(n, 4) + 1] >>
            /\ \A top \in 0..15 :
                   HashOfBytes(<< top * 16 + (e.bytes[1] % 16), e.bytes[2],
                                  e.bytes[3] >>) = e.hash

\* High bits are set and dropped, and the number left needs the padding.
C17_Witness ==
    \E e \in Events(out, "hashString") :
        /\ e.bytes = << 240, 0, 1 >>
        /\ e.hash = << "0", "0", "-", "0", "1" >>

(***************************************************************************)
(* The way of a code: the note NotePath is the active file, the copy       *)
(* commands write its code to the clipboard, and the text of the clipboard *)
(* comes back, as it is or in lower case, through the handler of           *)
(* obsidian://note-codes/open.                                             *)
(***************************************************************************)
InitCode ==
    /\ OnloadDone({NotePath})
    /\ activeFile = NotePath
    /\ digest \in CodeSamples

\* The code in a text the copy commands wrote: the URL of copyNoteCodeURL
\* carries it as its parameter code.
CodeOfText(text) == IF Head(text) = Head(UrlPrefix) THEN Tail(text) ELSE text

\* The text of the clipboard is opened: the handler of
\* obsidian://note-codes/open (main.ts lines 304-306) gets its code, in
\* lower case when lower, and calls openNoteForHash.
OpenClipboardCode(lower) ==
    /\ clipboard # << >>
    /\ LET code == CodeOfText(clipboard)
           raw  == IF lower THEN ToLowerCase(code) ELSE code
       IN  out' = << [op |-> "protocol", text |-> clipboard, code |-> code],
                     openNoteForHash(hashesToPaths, files, raw) >>
    /\ UNCHANGED << files, activeFile, hashesToPaths, pathsToHashes, pending,
                    microtasks, statusText, statusFile, suggestions, clipboard,
                    digest >>

NextCode ==
    \/ \E call \in BagToSet(pending) : AddPathResume(call)
    \/ RunMicrotask
    \/ CopyNoteCode
    \/ CopyNoteCodeURL
    \/ \E lower \in BOOLEAN : OpenClipboardCode(lower)

CodeSpec == InitCode /\ [][NextCode]_vars

(***************************************************************************)
(* C19  Full codes are fixed points of the formatter: for every code c     *)
(* hashString returns, formatHash(c) = c and formatHash of c in lower case *)
(* is c; hence the code a copy command wrote for a path that owns its code *)
(* in hashesToPaths resolves through openNoteForHash back to that path.    *)
(***************************************************************************)
C19_CodesAreFixedPoints ==
    /\ \A e \in Events(out, "hashString") :
           /\ formatHash(e.hash) = e.hash
           /\ formatHash(ToLowerCase(e.hash)) = e.hash
    /\ \A c \in Events(out, "protocol") :
           \A o \in Events(out, "openNoteForHash") :
               \A p \in Tracked :
                   (pathsToHashes[p] = c.code /\ MapGet(hashesToPaths, c.code) = p) =>
                       /\ o.hash = c.code
                       /\ o.path = p

\* The URL of a code with letters came back in lower case and opened its
\* note.
C19_Witness ==
    \E c \in Events(out, "protocol") :
        \E o \in Events(out, "openNoteForHash") :
            /\ c.text = UrlPrefix \o c.code
            /\ o.raw = << "z", "d", "-", "t", "0" >>
            /\ o.path = NotePath
            /\ o.result = "openFile"

(***************************************************************************)
(* C18  Stored codes are always the hash of their path: every entry of     *)
(* pathsToHashes and every entry of hashesToPaths pairs a path with        *)
(* hashString of that path, and every path that is a value of              *)
(* hashesToPaths is a key of pathsToHashes.                                *)
(***************************************************************************)
C18_StoredCodesAreHashes ==
    /\ \A p \in DOMAIN pathsToHashes :
           pathsToHashes[p] = hashString(p)
    /\ \A i \in 1..Len(hashesToPaths) :
           /\ hashesToPaths[i].hash = hashString(hashesToPaths[i].path)
           /\ hashesToPaths[i].path \in DOMAIN pathsToHashes

\* Two paths are tracked under one code, which the later one owns, next to
\* a third entry.
C18_Witness ==
    /\ Len(hashesToPaths) = 2
    /\ \E p \in DOMAIN pathsToHashes :
           /\ MapHas(hashesToPaths, pathsToHashes[p])
           /\ MapGet(hashesToPaths, pathsToHashes[p]) # p

(***************************************************************************)
(* C14  Benign overlapping adds: when two addPath(p) calls are suspended   *)
(* together and resume one after the other, in either order, the second    *)
(* write changes neither Map, so both Maps are what the first addPath(p)   *)
(* alone made of the starting state, and both calls return the same code.  *)
(***************************************************************************)
C14_OverlappingAddsAreBenign ==
    [][\A e \in Events(out, "addPath") :
           \A f \in Events(out', "addPath") :
               e.path = f.path =>
                   /\ hashesToPaths' = hashesToPaths
                   /\ pathsToHashes' = pathsToHashes
                   /\ f.hash = e.hash]_vars

\* An addPath(p) that was called while p was untracked has resumed after
\* another addPath(p) wrote p's code.
C14_Witness ==
    \E e \in Events(out, "addPath") :
        /\ e.known = UndefinedHash
        /\ e.before = e.hash
        /\ MapGet(hashesToPaths, e.hash) = e.path

(***************************************************************************)
(* The file events under the fairness of the digest: crypto.subtle.digest  *)
(* resolves for every call and nothing takes a suspended call away, so     *)
(* every suspended addPath resumes.  No file is opened in the workspace:   *)
(* the addPath calls are those of the bulk load, of create and of rename.  *)
(***************************************************************************)
\* The addPath calls that can be suspended, for a path that is tracked or
\* not when the call is made.
AllCalls ==
    {Call(path, "none", p2h) :
        path \in Paths,
        p2h \in {EmptyPathMap} \cup {[q \in {x} |-> hashString(x)] : x \in Paths}}

NextFiles ==
    \/ \E path \in Paths : Create(path)
    \/ \E path \in Paths : Delete(path)
    \/ \E oldPath, newPath \in Paths : Rename(oldPath, newPath)
    \/ \E call \in BagToSet(pending) : AddPathResume(call)

FairSpec ==
    /\ InitLookup
    /\ [][NextFiles]_vars
    /\ \A call \in AllCalls : WF_vars(AddPathResume(call))

(***************************************************************************)
(* C15  No cancellation: under the fairness of the digest, every addPath   *)
(* (p) that was started, by the bulk load too, resumes at last and writes  *)
(* hashesToPaths[hashString(p)] = p and pathsToHashes[p] = hashString(p),  *)
(* whatever removePath or other event came while it was suspended.         *)
(***************************************************************************)
C15_NoCancellation ==
    \A call \in AllCalls :
        BagIn(call, pending) ~>
            \E e \in Events(out, "addPath") :
                /\ e.path = call.path
                /\ e.known = call.known
                /\ e.hash = hashString(e.path)
                /\ MapGet(hashesToPaths, e.hash) = e.path
                /\ PathGet(pathsToHashes, e.path) = e.hash

\* An addPath has written the code of a path that was deleted from the
\* vault while the call was suspended.
C15_Witness ==
    \E e \in Events(out, "addPath") :
        /\ e.path \notin files
        /\ MapGet(hashesToPaths, e.hash) = e.path
        /\ PathGet(pathsToHashes, e.path) = e.hash

(***************************************************************************)
(* C16  Selection opens the chosen entry's path: when the user chooses an  *)
(* entry (code, path) that the search listed, the path resolved and        *)
(* requested to open is that entry's path, whatever happened to the index  *)
(* between the search and the choice.                                      *)
(***************************************************************************)
C16_SelectionOpensChosenPath ==
    \A c \in Events(out, "onChooseSuggestion") :
        \A o \in Events(out, "openNoteForHash") : o.path = c.path

(***************************************************************************)
(* C20  Status indicator never stale at quiescence: once no setStatusBar   *)
(* call is suspended, at the digest or in the microtask queue, the status  *)
(* bar shows the code of the file passed to the setStatusBar call started  *)
(* last, or "__-__" when that was null.                                    *)
(***************************************************************************)
C20_StatusNeverStale ==
    (/\ \A call \in BagToSet(pending) : call.caller # "status"
     /\ \A i \in 1..Len(microtasks) : microtasks[i].caller # "status") =>
        statusText = IF statusFile = NoFile THEN Placeholder
                     ELSE hashString(statusFile)

=============================================================================
